---- MODULE Spec2Model ----
(***************************************************************************)
(* Model of the release orchestrator (class Manifest): validate(),         *)
(* pullRequest() and githubRelease(), run against a remote code host whose *)
(* documents, merged pull request, labels and releases are the state.      *)
(* One orchestration run is in flight at a time; a run is cut into steps   *)
(* at the awaits of its remote calls.                                      *)
(***************************************************************************)
EXTENDS Integers, Sequences, FiniteSets, TLC

\* ------------------------------------------------------------------ bounds

\* Orchestration runs (pullRequest or githubRelease invocations) in one behaviour.
MaxRuns == 2

\* Commits the remote returns from commitsSinceSha in one pullRequest run.
MaxCommits == 1

\* ------------------------------------------------------------- input sets

\* Package root paths that may appear in the configuration, the manifest, the
\* merged pull request's file list and in commits.
Paths == {"a", "b"}

Undefined == "undefined"

\* Version strings found in the manifest at the tip / at the merged PR's sha.
TipVersion == "1.0.0"
ShaVersion == "1.1.0"

\* src/constants: DEFAULT_LABELS[0] and GITHUB_RELEASE_LABEL.
PendingLabel == "autorelease: pending"
ReleasedLabel == "autorelease: tagged"

Range(s) == {s[i] : i \in 1..Len(s)}

\* ------------------------------------------------------- remote documents

\* How a remote JSON document answers a read: "missing" (the read fails),
\* "badjson" (content that JSON.parse rejects), or the parsed value's shape.
DocKinds == {"missing", "badjson", "null", "array", "number", "object"}

\* The configuration document. For an object: whether it has a "packages" key,
\* the package paths in key order, the repo-wide "release-draft" default,
\* the "bootstrap-sha", if any, and the "release-as" of the repository and of
\* each package, if any.
ConfigDoc(kind, hasPackages, packages, releaseDraft) ==
  [kind |-> kind, hasPackages |-> hasPackages, packages |-> packages,
   releaseDraft |-> releaseDraft, bootstrapSha |-> Undefined,
   releaseAs |-> Undefined,
   packageReleaseAs |-> [p \in Range(packages) |-> Undefined]]

\* A configured "bootstrap-sha".
BootstrapSha == "bootstrap sha"

ConfigDocs ==
  {ConfigDoc(k, FALSE, <<>>, FALSE) : k \in DocKinds}
  \cup {ConfigDoc("object", TRUE, ps, d) :
          ps \in {<<>>, <<"a">>, <<"a", "b">>, <<"b", "a">>}, d \in BOOLEAN}
  \cup {[ConfigDoc("object", TRUE, <<"a">>, FALSE)
           EXCEPT !.bootstrapSha = BootstrapSha]}

\* A JSON value of the manifest document: a string or a number.
JsonString(s) == [type |-> "string", v |-> s]
JsonNumber == [type |-> "number", v |-> "7"]

\* The manifest document. For an object: its entries, path -> JSON value.
ManifestDoc(kind, entries) == [kind |-> kind, entries |-> entries]

EmptyEntries == [p \in {} |-> JsonNumber]

ManifestObjects(values) ==
  {ManifestDoc("object", e) : e \in UNION {[S -> values] : S \in SUBSET Paths}}

ManifestDocs ==
  {ManifestDoc(k, EmptyEntries) : k \in DocKinds \ {"object"}}
  \cup ManifestObjects({JsonString(TipVersion), JsonNumber})

\* The manifest as it was at the merged pull request's sha. It is not
\* validated by validate(); here it is absent, unparsable, or an object of
\* version strings.
ShaManifestDocs ==
  {ManifestDoc("missing", EmptyEntries), ManifestDoc("badjson", EmptyEntries)}
  \cup ManifestObjects({JsonString(ShaVersion)})

\* --------------------------------------------------------- reading documents

Thrown == [status |-> "throw"]
Returned(v) == [status |-> "value", value |-> v]
NoValue == [status |-> "undefined"]

\* getFileJson(fileName, sha?): a failed read is rethrown for the tip and
\* answered with undefined for a pinned sha; JSON.parse runs outside the try.
getFileJson(doc, pinned) ==
  IF doc.kind = "missing"
    THEN (IF pinned THEN NoValue ELSE Thrown)
    ELSE IF doc.kind = "badjson" THEN Thrown ELSE Returned(doc)

\* getManifestJson(sha?): the tip manifest (cached in headManifest) or the
\* manifest at a sha.
getManifestJson(doc, pinned) == getFileJson(doc, pinned)

\* A JavaScript string or undefined taken as a condition.
Truthy(v) == v # Undefined /\ v # ""

\* An empty per-package release-as taken as none: the default applies.
resolveReleaseAsEmptyTakesDefault(pkgRA, defaultRA) ==
  IF Truthy(pkgRA) THEN pkgRA
  ELSE IF Truthy(defaultRA) THEN defaultRA ELSE Undefined

\* resolveReleaseAs(pkgRA, defaultRA)
resolveReleaseAs(pkgRA, defaultRA) ==
  LET fromDefault == IF Truthy(defaultRA) THEN defaultRA ELSE Undefined
      releaseAs == IF pkgRA # Undefined THEN pkgRA ELSE fromDefault
  IN IF Truthy(releaseAs) THEN releaseAs ELSE Undefined

\* One entry of parsedPackages: release-draft falls back to the repo default,
\* release-as is resolved from the package's and the repository's.
Package(path, config) ==
  [path |-> path, releaseDraft |-> config.releaseDraft,
   releaseAs |-> resolveReleaseAs(config.packageReleaseAs[path],
                                  config.releaseAs)]

\* getConfigJson(): the parsed document spread into a fresh object, with
\* parsedPackages built from the keys of config.packages. Reading
\* config.packages of null throws; an array or a number has no such key.
getConfigJson(doc) ==
  LET r == getFileJson(doc, FALSE) IN
  IF r.status = "throw" \/ r.value.kind = "null" THEN Thrown
  ELSE LET has == r.value.kind = "object" /\ r.value.hasPackages
           pkgs == IF has THEN r.value.packages ELSE <<>>
       IN Returned([kind |-> "object", hasPackages |-> has, packages |-> pkgs,
                    bootstrapSha |-> r.value.bootstrapSha,
                    parsedPackages |->
                      [i \in 1..Len(pkgs) |-> Package(pkgs[i], r.value)]])

\* obj.constructor.name of a parsed JSON value (reading it off null throws).
ConstructorName(kind) ==
  CASE kind = "object" -> "Object"
    [] kind = "array" -> "Array"
    [] kind = "number" -> "Number"
    [] OTHER -> "TypeError"

\* validateJsonFile without the constructor test: any parsed value is valid.
validateJsonFileNoShapeCheck(r) ==
  IF r.status = "throw" THEN [valid |-> FALSE]
  ELSE IF ConstructorName(r.value.kind) # "TypeError"
    THEN [valid |-> TRUE, obj |-> r.value]
    ELSE [valid |-> FALSE]

\* validateJsonFile(getFileMethod, fileName) applied to what the getter gave:
\* valid only for a value whose constructor is Object; every throw is caught.
validateJsonFile(r) ==
  IF r.status = "throw" THEN [valid |-> FALSE]
  ELSE IF ConstructorName(r.value.kind) = "Object"
    THEN [valid |-> TRUE, obj |-> r.value]
    ELSE [valid |-> FALSE]

\* validate(): the configuration lists at least one package and every
\* manifest value is a string.
validate(config, manifest) ==
  LET configValidation == validateJsonFile(getConfigJson(config))
      validConfig == /\ configValidation.valid
                     /\ Len(configValidation.obj.packages) > 0
      manifestValidation == validateJsonFile(getManifestJson(manifest, FALSE))
      validManifest ==
        /\ manifestValidation.valid
        /\ \A p \in DOMAIN manifestValidation.obj.entries :
             manifestValidation.obj.entries[p].type = "string"
  IN validConfig /\ validManifest

\* ------------------------------------------------ release candidate resolver

\* A commit as the resolver sees it: the package roots its files lie under.
Commit(files) == [files |-> files]

\* Commit lists the remote may return from commitsSinceSha.
CommitLists ==
  UNION {[1..n -> {Commit(fs) : fs \in SUBSET Paths}] : n \in 0..MaxCommits}

\* new Map(Object.entries(manifestJson)): path -> version string.
VersionsOf(doc) == [p \in DOMAIN doc.entries |-> doc.entries[p].v]

\* getManifestVersions(sha): the manifest at the sha, or the tip manifest when
\* there is no sha or the manifest cannot be read at the sha.
getManifestVersions(tipDoc, shaDoc, hasSha) ==
  LET tip == getManifestJson(tipDoc, FALSE)
      atTip == IF tip.status = "throw" THEN [status |-> "throw"]
               ELSE [status |-> "value", versions |-> VersionsOf(tip.value),
                     atSha |-> "tip"]
  IN IF ~hasSha THEN atTip
     ELSE LET maybe == getManifestJson(shaDoc, TRUE) IN
          IF maybe.status = "throw" THEN [status |-> "throw"]
          ELSE IF maybe.status = "undefined" THEN atTip
          ELSE [status |-> "value", versions |-> VersionsOf(maybe.value),
                atSha |-> "sha"]

Lookup(versions, path) ==
  IF path \in DOMAIN versions THEN versions[path] ELSE Undefined

\* Every configured package taken as touched by the commits.
HasCommitsAlways(commits, path) == TRUE

\* commitsPerPath[path] is non-empty: some commit touches a file under path.
HasCommits(commits, path) ==
  \E i \in 1..Len(commits) : path \in commits[i].files

\* One PackageReleaseData whose version is always the tip manifest's.
PackageReleaseDataFromHead(pkg, versions, headVersions) ==
  [path |-> pkg.path,
   releaseDraft |-> pkg.releaseDraft,
   lastVersion |-> Lookup(headVersions, pkg.path)]

\* One PackageReleaseData: the package, with the version found at the resolved
\* reference or, failing that, at the tip (undefined when absent there too).
PackageReleaseData(pkg, versions, headVersions) ==
  [path |-> pkg.path,
   releaseDraft |-> pkg.releaseDraft,
   lastVersion |-> IF Lookup(versions, pkg.path) # Undefined
                     THEN Lookup(versions, pkg.path)
                     ELSE Lookup(headVersions, pkg.path)]

\* getPackagesToRelease(commits, sha): one entry, in configuration order, for
\* every configured package with at least one commit.
getPackagesToRelease(config, tipDoc, shaDoc, commits, hasSha) ==
  LET cfg == getConfigJson(config)
      mv == getManifestVersions(tipDoc, shaDoc, hasSha)
  IN IF cfg.status = "throw" \/ mv.status = "throw" THEN Thrown
     ELSE LET touched == SelectSeq(cfg.value.parsedPackages,
                           LAMBDA pkg : HasCommits(commits, pkg.path))
          IN Returned([i \in 1..Len(touched) |->
                        PackageReleaseData(touched[i], mv.versions,
                                           VersionsOf(tipDoc))])

\* ------------------------------------------------------ the remote's answers

\* What createRelease gives back: a release, nothing (no candidate could be
\* built), or a thrown error with an HTTP status and a list of error entries.
Created == [kind |-> "created", status |-> 0, errors |-> <<>>]
NoRelease == [kind |-> "none", status |-> 0, errors |-> <<>>]
Error(status, errors) == [kind |-> "error", status |-> status, errors |-> errors]
ErrorEntry(code, field) == [code |-> code, field |-> field]

TagConflict == Error(422, <<ErrorEntry("already_exists", "tag_name")>>)
ServerError == Error(500, <<>>)
Unprocessable == Error(422, <<>>)
OtherCode422 == Error(422, <<ErrorEntry("custom", "tag_name")>>)
OtherField422 == Error(422, <<ErrorEntry("already_exists", "name")>>)

\* A release creates its tag unless it is a draft; the tag is the unique key.
TagExists(rel, pkg) == pkg.path \in rel /\ ~pkg.releaseDraft

\* The answers the remote can give to createRelease for a package: the tag
\* conflict exactly when the tag exists, and any transient failure.
RemoteAnswers(rel, pkg) ==
  IF TagExists(rel, pkg)
    THEN {TagConflict, ServerError}
    ELSE {Created, NoRelease, ServerError, Unprocessable, OtherCode422,
          OtherField422}

\* -------------------------------------------------------------------- state

VARIABLES
  configDoc,          \* remote: the configuration document at the tip
  manifestDoc,        \* remote: the manifest document at the tip
  shaManifestDoc,     \* remote: the manifest at the merged pull request's sha
  mergedPR,           \* remote: the last merged release pull request
  remoteReleases,     \* remote: paths whose release of the merged PR exists
  runs,               \* orchestration runs started so far
  op,                 \* the running operation: "pullRequest", "githubRelease"
  pc,                 \* the run's position
  ret,                \* what the run returned
  valid,              \* validate()'s result in this run
  lastMergedPR,       \* this run's copy of the merged pull request
  packages,           \* this run's release candidates (PackageReleaseData[])
  idx,                \* position of the loop over packages
  allReleasesCreated, \* githubRelease's flag of the same name
  releases,           \* githubRelease's result map: path -> response/undefined
  attempts,           \* history: paths createRelease was called for, in order
  attemptVersions,    \* history: the version handed to each of those calls
  answers,            \* history: the remote's answer to each of those calls
  comments,           \* history: comments this run posted on the merged PR
  labelOps,           \* history: label operations this run performed
  created,            \* history: paths whose release this run created
  releasesAtStart,    \* history: remoteReleases when this run started
  commits,            \* pullRequest: the commits gathered
  commitsSince,       \* history: the sha handed to gh.commitsSinceSha
  openPRPackages,     \* pullRequest: packages whose releaser gave OpenPROptions
  manifestUpdates,    \* pullRequest: path -> next version
  opened,             \* pullRequest: the pull request this run opened
  releaserCalls,      \* history: getOpenPROptions calls, with their marker
  pluginRuns,         \* history: ManifestPlugin.run calls of this run
  openPRCalls         \* history: the options of each gh.openPR call

remoteVars == <<configDoc, manifestDoc, shaManifestDoc>>
runVars == <<valid, lastMergedPR, packages, idx, allReleasesCreated, releases>>
historyVars == <<attempts, attemptVersions, answers, comments, labelOps, created,
                releasesAtStart>>
prVars == <<commits, commitsSince, openPRPackages, manifestUpdates, opened, releaserCalls,
           pluginRuns, openPRCalls>>
manifestVars == <<remoteVars, mergedPR, remoteReleases, runs, op, pc, ret,
                  runVars, historyVars, prVars>>

\* The state of one NodeWorkspaceDependencyUpdates.run call.
VARIABLES
  workspace,           \* remote: the package.json of each package at the tip
  parsedPackages,      \* this.config.parsedPackages
  given,               \* history: the pair run() was called with
  newManifestVersions, \* run's VersionsMap, path -> version
  pkgsWithPRData,      \* run's ManifestPackageWithPRData[]
  ppc,                 \* run's position
  rpUpdatedPkgs,       \* filterPackages' result, file path -> package.json
  pkgIdx,              \* getAllWorkspacePackages: position in parsedPackages
  allPkgs,             \* getAllWorkspacePackages' result, [path, contents]
  fetched,             \* history: the paths read with gh.getFileContents
  updatesWithDependents, \* runLernaVersion: cu.collectPackages' result
  updatesVersions,     \* runLernaVersion: name -> new version
  invalidVersions,     \* runLernaVersion: names whose version has no patch
  graphPkgs,           \* the Package objects of the graph, by name
  allUpdated           \* the locations of the packages the runner returned

pluginVars == <<workspace, parsedPackages, given, newManifestVersions,
               pkgsWithPRData, ppc, rpUpdatedPkgs, pkgIdx, allPkgs, fetched,
               updatesWithDependents, updatesVersions, invalidVersions,
               graphPkgs, allUpdated>>

\* No propagator call is in flight.
PluginIdle ==
  /\ workspace = <<>>
  /\ parsedPackages = <<>>
  /\ given = <<>>
  /\ newManifestVersions = <<>>
  /\ pkgsWithPRData = <<>>
  /\ ppc = "idle"
  /\ rpUpdatedPkgs = <<>>
  /\ pkgIdx = 1
  /\ allPkgs = <<>>
  /\ fetched = <<>>
  /\ updatesWithDependents = <<>>
  /\ updatesVersions = <<>>
  /\ invalidVersions = {}
  /\ graphPkgs = <<>>
  /\ allUpdated = <<>>

\* The tip documents as one Manifest instance holds them.
VARIABLES
  configFile,          \* this.configFile
  headManifest,        \* this.headManifest
  calls,               \* history: the calls of getConfigJson, getManifestJson
  tipChanges           \* pushes to the default branch so far

instanceVars == <<configFile, headManifest, calls, tipChanges>>

\* The fields of a Manifest just constructed.
InstanceIdle ==
  /\ configFile = NoValue
  /\ headManifest = NoValue
  /\ calls = <<>>
  /\ tipChanges = 0

vars == <<manifestVars, pluginVars, instanceVars>>

NoPR == [exists |-> FALSE, labels |-> {}, files |-> {}]
MergedPR(labels, files) == [exists |-> TRUE, labels |-> labels, files |-> files]
NotFetched == [exists |-> FALSE, labels |-> {"not fetched"}, files |-> {}]

NoMap == [p \in {} |-> Undefined]
NotOpened == [called |-> FALSE, number |-> 0, labels |-> {}]

\* The run-local state of a run that has not started yet.
FreshRun ==
  /\ ret = "none"
  /\ valid = FALSE
  /\ lastMergedPR = NotFetched
  /\ packages = <<>>
  /\ idx = 1
  /\ allReleasesCreated = FALSE
  /\ releases = NoMap
  /\ attempts = <<>>
  /\ attemptVersions = NoMap
  /\ answers = NoMap
  /\ comments = <<>>
  /\ labelOps = <<>>
  /\ created = {}
  /\ commits = <<>>
  /\ commitsSince = "not called"
  /\ openPRPackages = <<>>
  /\ manifestUpdates = NoMap
  /\ opened = NotOpened
  /\ releaserCalls = <<>>
  /\ pluginRuns = <<>>
  /\ openPRCalls = <<>>

\* Documents that pass validate().
ValidConfigDocs == {c \in ConfigDocs : c.kind = "object" /\ Len(c.packages) > 0}
ValidManifestDocs == ManifestObjects({JsonString(TipVersion)})

MergedPRs ==
  {NoPR} \cup {MergedPR(ls, fs) : ls \in SUBSET {PendingLabel, ReleasedLabel},
                                  fs \in SUBSET Paths}

\* The remote before the first run. Either the documents are well formed, with
\* any manifest at the merged pull request's sha and any merged pull request
\* (or none); or the documents have any shape, malformed ones included, and
\* a pending release pull request touching every package is merged.
Init ==
  /\ \/ /\ configDoc \in ValidConfigDocs
        /\ manifestDoc \in ValidManifestDocs
        /\ mergedPR \in MergedPRs
        /\ shaManifestDoc \in
             IF mergedPR.exists THEN ShaManifestDocs
             ELSE {ManifestDoc("missing", EmptyEntries)}
     \/ /\ configDoc \in ConfigDocs
        /\ manifestDoc \in ManifestDocs
        /\ mergedPR = MergedPR({PendingLabel}, Paths)
        /\ shaManifestDoc = ManifestDoc("object",
                              [p \in Paths |-> JsonString(ShaVersion)])
  /\ remoteReleases = {}
  /\ runs = 0
  /\ op = "none"
  /\ pc = "idle"
  /\ releasesAtStart = {}
  /\ FreshRun
  /\ PluginIdle
  /\ InstanceIdle

\* ---------------------------------------------------------------- the runs

Ops == {"pullRequest", "githubRelease"}

\* A new orchestration run starts (a fresh Manifest instance) once the
\* previous one has returned or thrown.
StartRun(o) ==
  /\ UNCHANGED <<pluginVars, instanceVars>>
  /\ pc \in {"idle", "done", "threw"}
  /\ runs < MaxRuns
  /\ runs' = runs + 1
  /\ op' = o
  /\ pc' = "validate"
  /\ releasesAtStart' = remoteReleases
  /\ ret' = "none"
  /\ valid' = FALSE
  /\ lastMergedPR' = NotFetched
  /\ packages' = <<>>
  /\ idx' = 1
  /\ allReleasesCreated' = FALSE
  /\ releases' = NoMap
  /\ attempts' = <<>>
  /\ attemptVersions' = NoMap
  /\ answers' = NoMap
  /\ comments' = <<>>
  /\ labelOps' = <<>>
  /\ created' = {}
  /\ commits' = <<>>
  /\ commitsSince' = "not called"
  /\ openPRPackages' = <<>>
  /\ manifestUpdates' = NoMap
  /\ opened' = NotOpened
  /\ releaserCalls' = <<>>
  /\ pluginRuns' = <<>>
  /\ openPRCalls' = <<>>
  /\ UNCHANGED <<remoteVars, mergedPR, remoteReleases>>

\* The run going on whatever validate() returned.
AfterValidateAlways(v) == "lastMergedPR"

\* if (!valid) return; at the head of pullRequest and of githubRelease.
AfterValidate(v) == IF v THEN "lastMergedPR" ELSE "done"

\* const valid = await this.validate(); if (!valid) return;
Validate ==
  /\ UNCHANGED <<pluginVars, instanceVars>>
  /\ pc = "validate"
  /\ valid' = validate(configDoc, manifestDoc)
  /\ pc' = AfterValidate(valid')
  /\ ret' = IF pc' = "done" THEN Undefined ELSE ret
  /\ UNCHANGED <<remoteVars, mergedPR, remoteReleases, runs, op, lastMergedPR,
                 packages, idx, allReleasesCreated, releases, historyVars,
                 prVars>>

\* The bail-out tests without the one for the released label.
BailsOutIgnoringReleased(pr) ==
  \/ ~pr.exists
  \/ PendingLabel \notin pr.labels

\* githubRelease bails out: no merged release pull request, one already
\* labeled as released, or one not labeled as pending.
BailsOut(pr) ==
  \/ ~pr.exists
  \/ ReleasedLabel \in pr.labels
  \/ PendingLabel \notin pr.labels

\* githubRelease: lastMergedPRByHeadBranch and the label checks.
ReleaseLastMergedPR ==
  /\ UNCHANGED <<pluginVars, instanceVars>>
  /\ pc = "lastMergedPR" /\ op = "githubRelease"
  /\ lastMergedPR' = mergedPR
  /\ pc' = IF BailsOut(mergedPR) THEN "done" ELSE "packages"
  /\ ret' = IF pc' = "done" THEN Undefined ELSE ret
  /\ UNCHANGED <<remoteVars, mergedPR, remoteReleases, runs, op, valid,
                 packages, idx, allReleasesCreated, releases, historyVars,
                 prVars>>

\* githubRelease: getPackagesToRelease with the merged PR's files as the one
\* commit; allReleasesCreated = !!packages.length.
ReleasePackages ==
  /\ UNCHANGED <<pluginVars, instanceVars>>
  /\ pc = "packages" /\ op = "githubRelease"
  /\ LET r == getPackagesToRelease(configDoc, manifestDoc, shaManifestDoc,
                                   <<Commit(lastMergedPR.files)>>, TRUE)
     IN IF r.status = "throw"
          THEN /\ pc' = "threw"
               /\ UNCHANGED <<packages, allReleasesCreated>>
          ELSE /\ pc' = "loop"
               /\ packages' = r.value
               /\ allReleasesCreated' = (Len(r.value) > 0)
  /\ idx' = 1
  /\ UNCHANGED <<remoteVars, mergedPR, remoteReleases, runs, op, ret, valid,
                 lastMergedPR, releases, historyVars, prVars>>

\* obj[key] = value on a record object.
Set(map, key, value) ==
  [k \in DOMAIN map \cup {key} |-> IF k = key THEN value ELSE map[k]]

\* The loop creating a release for every candidate, known version or not.
HasNoLastVersionNever(pkg) == FALSE

\* if (!pkg.lastVersion): the manifest entry of this package is gone.
HasNoLastVersion(pkg) == pkg.lastVersion = Undefined

\* The catch block treating every error as a failure of the batch.
IsUnprocessableNever(err) == FALSE

\* The catch block's first test asking for more than one error entry.
IsUnprocessableWithSeveralErrors(err) ==
  err.status = 422 /\ Len(err.errors) > 1

\* The catch block's first test: a 422 carrying an error list is not handled
\* as a failure of the batch.
IsUnprocessableWithErrors(err) == err.status = 422 /\ Len(err.errors) > 0

\* The catch block's inner test, which only decides what is logged.
IsTagConflict(err) ==
  /\ err.errors[1].code = "already_exists"
  /\ err.errors[1].field = "tag_name"

\* The loop stepping over a candidate.
NextPackageSkipsOne(i) == i + 2

\* for (const pkg of packages): the loop moves on to the next candidate.
NextPackage(i) == i + 1

\* The loop is over: label the pull request if every release was created.
LoopFinishedAlways(i, pkgs) == TRUE

\* The pending label removed before the released label is added.
RelabelingRemoveFirst == <<"removeLabels", "addLabels">>

\* if (allReleasesCreated): addLabels, then removeLabels.
Relabeling == <<"addLabels", "removeLabels">>

\* Where the run goes after one of the two label calls.
AfterLabelCall(call) == IF Relabeling[1] = call THEN Relabeling[2] ELSE "done"

\* for (const pkg of packages) has been through every package.
LoopFinished(i, pkgs) == i > Len(pkgs)

ReleaseLoopEnd ==
  /\ UNCHANGED <<pluginVars, instanceVars>>
  /\ pc = "loop" /\ op = "githubRelease"
  /\ LoopFinished(idx, packages)
  /\ pc' = IF allReleasesCreated THEN Relabeling[1] ELSE "done"
  /\ ret' = IF pc' = "done" THEN "releases" ELSE ret
  /\ UNCHANGED <<remoteVars, mergedPR, remoteReleases, runs, op, runVars,
                 historyVars, prVars>>

\* A candidate without a last version: releases[pkg.path] = undefined; continue.
SkipPackage ==
  /\ UNCHANGED <<pluginVars, instanceVars>>
  /\ pc = "loop" /\ op = "githubRelease"
  /\ idx <= Len(packages)
  /\ HasNoLastVersion(packages[idx])
  /\ releases' = Set(releases, packages[idx].path, Undefined)
  /\ idx' = NextPackage(idx)
  /\ UNCHANGED <<remoteVars, mergedPR, remoteReleases, runs, op, pc, ret,
                 valid, lastMergedPR, packages, allReleasesCreated,
                 historyVars, prVars>>

\* releaser.createRelease(pkg.lastVersion, lastMergedPR) and the catch block
\* up to its first await.
CreateRelease ==
  /\ UNCHANGED <<pluginVars, instanceVars>>
  /\ pc = "loop" /\ op = "githubRelease"
  /\ idx <= Len(packages)
  /\ ~HasNoLastVersion(packages[idx])
  /\ LET pkg == packages[idx] IN
     \E answer \in RemoteAnswers(remoteReleases, pkg) :
       /\ attempts' = Append(attempts, pkg.path)
       /\ attemptVersions' = Set(attemptVersions, pkg.path, pkg.lastVersion)
       /\ answers' = Set(answers, pkg.path, answer)
       /\ CASE answer.kind = "created" ->
                 /\ remoteReleases' = remoteReleases \cup {pkg.path}
                 /\ created' = created \cup {pkg.path}
                 /\ pc' = "commentSuccess"
                 /\ UNCHANGED <<idx, allReleasesCreated, releases>>
            [] answer.kind = "none" ->
                 /\ idx' = NextPackage(idx)
                 /\ UNCHANGED <<remoteReleases, created, pc,
                                allReleasesCreated, releases>>
            [] answer.kind = "error" /\ IsUnprocessableWithErrors(answer) ->
                 /\ releases' = Set(releases, pkg.path, Undefined)
                 /\ idx' = NextPackage(idx)
                 /\ UNCHANGED <<remoteReleases, created, pc,
                                allReleasesCreated>>
            [] OTHER ->
                 /\ allReleasesCreated' = FALSE
                 /\ pc' = "commentFailure"
                 /\ UNCHANGED <<remoteReleases, created, idx, releases>>
  /\ UNCHANGED <<remoteVars, mergedPR, runs, op, ret, valid, lastMergedPR,
                 packages, comments, labelOps, releasesAtStart, prVars>>

Comment(kind, path) == [kind |-> kind, path |-> path]

\* commentOnIssue(":robot: Failed to create release ..."), then
\* releases[pkg.path] = undefined; continue.
CommentFailure ==
  /\ UNCHANGED <<pluginVars, instanceVars>>
  /\ pc = "commentFailure"
  /\ comments' = Append(comments, Comment("failure", packages[idx].path))
  /\ releases' = Set(releases, packages[idx].path, Undefined)
  /\ idx' = NextPackage(idx)
  /\ pc' = "loop"
  /\ UNCHANGED <<remoteVars, mergedPR, remoteReleases, runs, op, ret, valid,
                 lastMergedPR, packages, allReleasesCreated, attempts,
                 attemptVersions, answers, labelOps, created, releasesAtStart,
                 prVars>>

\* commentOnIssue(":robot: Release for ... is at ..."), then
\* releases[pkg.path] = releaser.releaseResponse(...).
CommentSuccess ==
  /\ UNCHANGED <<pluginVars, instanceVars>>
  /\ pc = "commentSuccess"
  /\ comments' = Append(comments, Comment("success", packages[idx].path))
  /\ releases' = Set(releases, packages[idx].path, "response")
  /\ idx' = NextPackage(idx)
  /\ pc' = "loop"
  /\ UNCHANGED <<remoteVars, mergedPR, remoteReleases, runs, op, ret, valid,
                 lastMergedPR, packages, allReleasesCreated, attempts,
                 attemptVersions, answers, labelOps, created, releasesAtStart,
                 prVars>>

\* gh.addLabels([GITHUB_RELEASE_LABEL], lastMergedPR.number)
AddLabels ==
  /\ UNCHANGED <<pluginVars, instanceVars>>
  /\ pc = "addLabels"
  /\ mergedPR' = [mergedPR EXCEPT !.labels = @ \cup {ReleasedLabel}]
  /\ labelOps' = Append(labelOps, "add released")
  /\ pc' = AfterLabelCall("addLabels")
  /\ ret' = IF pc' = "done" THEN "releases" ELSE ret
  /\ UNCHANGED <<remoteVars, remoteReleases, runs, op, runVars, attempts,
                 attemptVersions, answers, comments, created,
                 releasesAtStart, prVars>>

\* gh.removeLabels(DEFAULT_LABELS, lastMergedPR.number); return releases.
RemoveLabels ==
  /\ UNCHANGED <<pluginVars, instanceVars>>
  /\ pc = "removeLabels"
  /\ mergedPR' = [mergedPR EXCEPT !.labels = @ \ {PendingLabel}]
  /\ labelOps' = Append(labelOps, "remove pending")
  /\ pc' = AfterLabelCall("removeLabels")
  /\ ret' = IF pc' = "done" THEN "releases" ELSE ret
  /\ UNCHANGED <<remoteVars, remoteReleases, runs, op, runVars, attempts,
                 attemptVersions, answers, comments, created,
                 releasesAtStart, prVars>>

\* A comment or label call fails: nothing catches it, the run throws.
RemoteCallFails ==
  /\ UNCHANGED <<pluginVars, instanceVars>>
  /\ pc \in {"commentFailure", "commentSuccess", "addLabels", "removeLabels",
            "openPR", "addPending"}
  /\ pc' = "threw"
  /\ UNCHANGED <<remoteVars, mergedPR, remoteReleases, runs, op, ret, runVars,
                 historyVars, prVars>>

\* ------------------------------------------------------- the pull-request flow

\* pullRequest: lastMergedPRByHeadBranch(branchName).
PullRequestLastMergedPR ==
  /\ UNCHANGED <<pluginVars, instanceVars>>
  /\ pc = "lastMergedPR" /\ op = "pullRequest"
  /\ lastMergedPR' = mergedPR
  /\ pc' = "commits"
  /\ UNCHANGED <<remoteVars, mergedPR, remoteReleases, runs, op, ret, valid,
                 packages, idx, allReleasesCreated, releases, historyVars,
                 prVars>>

\* The sha of the last merged release pull request, lastMergedPR?.sha.
MergedSha == "sha of the merged PR"

\* The bootstrap sha taken whenever it is configured.
commitsSinceShaBootstrapFirst(config, pr) ==
  IF config.bootstrapSha # Undefined THEN config.bootstrapSha
  ELSE IF pr.exists THEN MergedSha ELSE Undefined

\* commitsSinceSha(sha): the sha handed to gh.commitsSinceSha is the one
\* given or, when none is given, the configuration's 'bootstrap-sha'.
commitsSinceSha(config, pr) ==
  IF pr.exists THEN MergedSha ELSE config.bootstrapSha

\* pullRequest: commitsSinceSha(lastMergedPR?.sha), then
\* getPackagesToRelease(commits, lastMergedPR?.sha).
PullRequestPackages ==
  /\ UNCHANGED <<pluginVars, instanceVars>>
  /\ pc = "commits" /\ op = "pullRequest"
  /\ commitsSince' = commitsSinceSha(getConfigJson(configDoc).value,
                                     lastMergedPR)
  /\ \E cs \in CommitLists :
       /\ commits' = cs
       /\ LET r == getPackagesToRelease(configDoc, manifestDoc, shaManifestDoc,
                                        cs, lastMergedPR.exists)
          IN IF r.status = "throw"
               THEN pc' = "threw" /\ UNCHANGED packages
               ELSE pc' = "releasers" /\ packages' = r.value
  /\ idx' = 1
  /\ UNCHANGED <<remoteVars, mergedPR, remoteReleases, runs, op, ret, valid,
                 lastMergedPR, allReleasesCreated, releases, historyVars,
                 openPRPackages, manifestUpdates, opened, releaserCalls,
                 pluginRuns, openPRCalls>>

\* The marker of a package's last release: none.
NoLatestTag ==
  [present |-> FALSE, name |-> Undefined, sha |-> Undefined,
   version |-> Undefined]

\* The marker built whether or not the package has a last version.
LatestTagAlways(pkg, pr) ==
  [present |-> TRUE, name |-> "v" \o pkg.lastVersion,
   sha |-> IF pr.exists THEN MergedSha ELSE "beginning of time",
   version |-> pkg.lastVersion]

\* runReleasers: pkg.lastVersion ? {name, sha: sha ?? 'beginning of time',
\* version} : undefined, the second argument of getOpenPROptions.
LatestTag(pkg, pr) ==
  IF pkg.lastVersion # Undefined
    THEN [present |-> TRUE, name |-> "v" \o pkg.lastVersion,
          sha |-> IF pr.exists THEN MergedSha ELSE "beginning of time",
          version |-> pkg.lastVersion]
    ELSE NoLatestTag

\* releasePR.defaultInitialVersion(): what a releaser proposes for a package
\* that was never released.
DefaultInitialVersion == "0.1.0"

\* The version a releaser computes: the increment of the marker's version, or
\* its default initial version when it gets no marker.
NextVersion(latestTag) ==
  IF latestTag.present THEN "next of " \o latestTag.version
  ELSE DefaultInitialVersion

\* The changelog text a releaser writes for a package.
Changelog(path) == "changelog of " \o path

\* One file update of the pull request; versions is set for the manifest's.
Update(path, versions) == [path |-> path, versions |-> versions]

\* The ordered file updates a releaser proposes for a package.
FileUpdates(path) ==
  <<Update(path \o "/CHANGELOG.md", NoMap),
    Update(path \o "/package.json", NoMap)>>

\* releasePR.getOpenPROptions(commits, latestTag): OpenPROptions, or nothing
\* when the package has no releasable change.
NoOptions ==
  [present |-> FALSE, version |-> Undefined, changelogEntry |-> Undefined,
   updates |-> <<>>]
OpenPROptions(version, changelogEntry, updates) ==
  [present |-> TRUE, version |-> version, changelogEntry |-> changelogEntry,
   updates |-> updates]
getOpenPROptions(pkg, latestTag) ==
  {NoOptions,
   OpenPROptions(NextVersion(latestTag), Changelog(pkg.path),
                 FileUpdates(pkg.path))}

\* One element of openPRPackages: {name: releasePR.packageName, openPROptions}.
PackageWithPRData(name, openPROptions) ==
  [name |-> name, openPROptions |-> openPROptions]

\* runReleasers: one candidate's releaser; its OpenPROptions, if any, are
\* pushed to openPRPackages and its version set in manifestUpdates.
RunReleaser ==
  /\ UNCHANGED <<pluginVars, instanceVars>>
  /\ pc = "releasers"
  /\ idx <= Len(packages)
  /\ LET pkg == packages[idx]
         latestTag == LatestTag(pkg, lastMergedPR)
     IN \E options \in getOpenPROptions(pkg, latestTag) :
          /\ releaserCalls' =
               Append(releaserCalls, [path |-> pkg.path, latestTag |-> latestTag,
                                      options |-> options])
          /\ IF options.present
               THEN /\ openPRPackages' =
                         Append(openPRPackages,
                                PackageWithPRData(pkg.path, options))
                    /\ manifestUpdates' =
                         Set(manifestUpdates, pkg.path, options.version)
               ELSE UNCHANGED <<openPRPackages, manifestUpdates>>
  /\ idx' = idx + 1
  /\ UNCHANGED <<remoteVars, mergedPR, remoteReleases, runs, op, pc, ret,
                 valid, lastMergedPR, packages, allReleasesCreated, releases,
                 historyVars, commits, commitsSince, opened, pluginRuns,
                 openPRCalls>>

\* pullRequest without its early return.
NoUserFacingChangesNever(pkgs) == FALSE

\* if (openPRPackages.length === 0) return;
NoUserFacingChanges(pkgs) == Len(pkgs) = 0

\* runReleasers has returned.
ReleasersEnd ==
  /\ UNCHANGED <<pluginVars, instanceVars>>
  /\ pc = "releasers"
  /\ idx > Len(packages)
  /\ pc' = IF NoUserFacingChanges(openPRPackages) THEN "done" ELSE "openPR"
  /\ ret' = IF pc' = "done" THEN Undefined ELSE ret
  /\ UNCHANGED <<remoteVars, mergedPR, remoteReleases, runs, op, runVars,
                 historyVars, prVars>>

\* this.manifestFileName (RELEASE_PLEASE_MANIFEST).
ManifestFileName == ".release-please-manifest.json"

\* One section of the body: name, version and changelog of a package.
Section(openPRPackage) ==
  [name |-> openPRPackage.name,
   version |-> openPRPackage.openPROptions.version,
   changelogEntry |-> openPRPackage.openPROptions.changelogEntry]

\* updates.push(...openPRPackage.openPROptions.updates) over the packages.
RECURSIVE PushUpdates(_)
PushUpdates(pkgs) ==
  IF Len(pkgs) = 0 THEN <<>>
  ELSE PushUpdates(SubSeq(pkgs, 1, Len(pkgs) - 1))
         \o pkgs[Len(pkgs)].openPROptions.updates

\* buildManifestPR leaving the manifest document out of the change set.
buildManifestPRWithoutManifest(versions, pkgs) ==
  [body |-> [i \in 1..Len(pkgs) |-> Section(pkgs[i])],
   updates |-> PushUpdates(pkgs)]

\* buildManifestPR(manifestUpdates, openPRPackages): the body, one section per
\* package between a fixed header and footer, and the updates, every
\* package's followed by the one update of the manifest document.
buildManifestPR(versions, pkgs) ==
  [body |-> [i \in 1..Len(pkgs) |-> Section(pkgs[i])],
   updates |-> Append(PushUpdates(pkgs), Update(ManifestFileName, versions))]

\* The run returning right after gh.openPR, without labeling.
AfterOpenPRWithoutLabels(number) == "done"

\* if (pr) { await this.gh.addLabels(DEFAULT_LABELS, pr); }
AfterOpenPR(number) == IF number # 0 THEN "addPending" ELSE "done"

\* buildManifestPR and gh.openPR({branch, title, body, updates, labels}): the
\* remote answers with the pull request's number, or with nothing.
OpenPR ==
  /\ UNCHANGED <<pluginVars, instanceVars>>
  /\ pc = "openPR"
  /\ LET built == buildManifestPR(manifestUpdates, openPRPackages)
     IN openPRCalls' =
          Append(openPRCalls, [body |-> built.body, updates |-> built.updates,
                               labels |-> {PendingLabel}])
  /\ \E number \in {0, 1} :
       /\ opened' = [called |-> TRUE, number |-> number, labels |-> {}]
       /\ pc' = AfterOpenPR(number)
       /\ ret' = IF pc' = "done"
                   THEN (IF number # 0 THEN "pr" ELSE Undefined)
                   ELSE ret
  /\ UNCHANGED <<remoteVars, mergedPR, remoteReleases, runs, op, runVars,
                 historyVars, commits, commitsSince, openPRPackages,
                 manifestUpdates,
                 releaserCalls, pluginRuns>>

\* await this.gh.addLabels(DEFAULT_LABELS, pr); return pr;
AddPendingLabels ==
  /\ UNCHANGED <<pluginVars, instanceVars>>
  /\ pc = "addPending"
  /\ opened' = [opened EXCEPT !.labels = {PendingLabel}]
  /\ pc' = "done"
  /\ ret' = "pr"
  /\ UNCHANGED <<remoteVars, mergedPR, remoteReleases, runs, op, runVars,
                 historyVars, commits, commitsSince, openPRPackages,
                 manifestUpdates,
                 releaserCalls, pluginRuns, openPRCalls>>

\* ------------------------------------------------------------ specification

Next ==
  \/ \E o \in Ops : StartRun(o)
  \/ Validate
  \/ ReleaseLastMergedPR
  \/ ReleasePackages
  \/ ReleaseLoopEnd
  \/ SkipPackage
  \/ CreateRelease
  \/ CommentFailure
  \/ CommentSuccess
  \/ AddLabels
  \/ RemoveLabels
  \/ RemoteCallFails
  \/ PullRequestLastMergedPR
  \/ PullRequestPackages
  \/ RunReleaser
  \/ ReleasersEnd
  \/ OpenPR
  \/ AddPendingLabels

Spec == Init /\ [][Next]_vars

\* ------------------------------------------------ the workspace propagator
\*
\* NodeWorkspaceDependencyUpdates.run(newManifestVersions, pkgsWithPRData) on
\* a workspace of three packages. The package graph, the collection of
\* dependents and the topological runner are @lerna's; they are modelled by
\* what the plugin gets from them.

\* The packages of the workspace, in the order of the configuration.
PkgOrder == <<"pkgA", "pkgB", "pkgC">>
Pkgs == Range(PkgOrder)

PkgPath(name) == "packages/" \o name

\* `${pkg.path}/package.json`
DescriptorPath(path) == path \o "/package.json"

\* The package whose package.json lies at filePath.
NameAt(filePath) ==
  CHOOSE n \in Pkgs : DescriptorPath(PkgPath(n)) = filePath

\* A version that semver parses, major.minor.patch, or one it does not.
NotAVersion == <<>>
PreviousVersion ==
  [n \in Pkgs |-> CASE n = "pkgA" -> <<1, 1, 1>>
                    [] n = "pkgB" -> <<2, 2, 2>>
                    [] OTHER -> <<3, 3, 3>>]

\* semver.inc(version, release): null (here NotAVersion) when version does
\* not parse.
SemverInc(version, release) ==
  IF Len(version) # 3 THEN NotAVersion
  ELSE IF release = "major" THEN <<version[1] + 1, 0, 0>>
  ELSE <<version[1], version[2], version[3] + 1>>

\* One entry of a package.json's dependency collections: the collection it is
\* in, the type npm-package-arg resolves its spec to, and for a caret range
\* the version the caret is put on.
Dependency(kind, type, range) == [kind |-> kind, type |-> type, range |-> range]

PackageJson(name, version, dependencies) ==
  [name |-> name, version |-> version, dependencies |-> dependencies]

NoJson == PackageJson("", NotAVersion, [d \in {} |-> Dependency("", "", NotAVersion)])

\* packageJsonStringify(json) and JSON.parse(content): the content of a file
\* that holds a package.json, and back.
packageJsonStringify(json) == [format |-> "package.json", json |-> json]
JsonParse(content) == content.json
Text == [format |-> "text", json |-> NoJson]

FileData(content) == [content |-> content, mode |-> "100644"]

\* How package n may declare a dependency on package m of the workspace.
Edges == {e \in Pkgs \X Pkgs : e[1] # e[2]}
EdgeChoices(e) ==
  {"none"}
  \cup (IF e # <<"pkgA", "pkgC">> THEN {"range"} ELSE {})
  \cup (IF e \in {<<"pkgB", "pkgA">>, <<"pkgC", "pkgB">>} THEN {"directory"}
        ELSE {})
  \cup (IF e = <<"pkgC", "pkgA">> THEN {"dev"} ELSE {})
Declarations ==
  {g \in [Edges -> {"none", "range", "dev", "directory"}] :
     \A e \in Edges : g[e] \in EdgeChoices(e)}

DependencyOn(choice, name) ==
  CASE choice = "range" -> Dependency("dependencies", "range", PreviousVersion[name])
    [] choice = "dev" -> Dependency("devDependencies", "range", PreviousVersion[name])
    [] OTHER -> Dependency("dependencies", "directory", NotAVersion)

\* The package.json files of the workspace at the tip, for a choice of
\* declared dependencies and of version fields.
Workspace(g, versions) ==
  [n \in Pkgs |->
     PackageJson(n, versions[n],
                 [m \in {m \in Pkgs \ {n} : g[<<n, m>>] # "none"} |->
                    DependencyOn(g[<<n, m>>], m)])]

\* The version fields: pkgB's may be unparsable.
VersionFields ==
  {v \in [Pkgs -> {NotAVersion} \cup {PreviousVersion[n] : n \in Pkgs}] :
     \A n \in Pkgs :
       v[n] \in IF n = "pkgB" THEN {NotAVersion, PreviousVersion[n]}
                ELSE {PreviousVersion[n]}}

\* What the upstream releasers did to each package: nothing, a patch or a
\* major release.
Bumps ==
  {b \in [Pkgs -> {"none", "patch", "major"}] : b["pkgC"] # "major"}

\* The release types of the configuration: pkgC may not be a node package.
ReleaseTypes ==
  {t \in [Pkgs -> {"node", "python"}] : t["pkgA"] = "node" /\ t["pkgB"] = "node"}

\* One element of config.parsedPackages, and a ManifestPackageWithPRData.
ParsedPackage(path, releaseType, packageName) ==
  [path |-> path, releaseType |-> releaseType, packageName |-> packageName]
ManifestPackageWithPRData(config, version, changes) ==
  [config |-> config, prData |-> [version |-> version, changes |-> changes]]

\* What an upstream releaser hands over for a package it released: for a node
\* package the package.json with the new version, and the changelog.
UpstreamEntry(name, releaseType, version, json) ==
  ManifestPackageWithPRData(
    ParsedPackage(PkgPath(name), releaseType, Undefined), version,
    IF releaseType = "node"
      THEN (DescriptorPath(PkgPath(name)) :>
              FileData(packageJsonStringify([json EXCEPT !.version = version])))
           @@ (PkgPath(name) \o "/CHANGELOG.md" :> FileData(Text))
      ELSE (PkgPath(name) \o "/setup.py" :> FileData(Text)))

\* The pair the releasers produce for a choice of bumps.
UpstreamVersions(bumps) ==
  [p \in {PkgPath(n) : n \in {n \in Pkgs : bumps[n] # "none"}} |->
     LET n == CHOOSE n \in Pkgs : PkgPath(n) = p
     IN SemverInc(PreviousVersion[n], bumps[n])]
UpstreamPRData(bumps, types, ws) ==
  LET released == SelectSeq(PkgOrder, LAMBDA n : bumps[n] # "none")
  IN [i \in 1..Len(released) |->
        UpstreamEntry(released[i], types[released[i]],
                      SemverInc(PreviousVersion[released[i]], bumps[released[i]]),
                      ws[released[i]])]

\* ---- filterPackages

\* filterPackages(pkgsWithPRData): the package.json contents already updated
\* by the node releasers, by file path.
filterPackages(entries) ==
  LET hits == {i \in 1..Len(entries) :
                 /\ entries[i].config.releaseType = "node"
                 /\ DescriptorPath(entries[i].config.path)
                      \in DOMAIN entries[i].prData.changes}
  IN [f \in {DescriptorPath(entries[i].config.path) : i \in hits} |->
        LET i == CHOOSE i \in hits :
                   /\ DescriptorPath(entries[i].config.path) = f
                   /\ \A j \in hits :
                        DescriptorPath(entries[j].config.path) = f => j <= i
        IN JsonParse(entries[i].prData.changes[f].content)]

\* ---- @lerna/package-graph, @lerna/collect-updates

\* The contents of the Package objects by name, and their locations.
ByName(all) ==
  [n \in {all[i].contents.name : i \in 1..Len(all)} |->
     all[CHOOSE i \in 1..Len(all) : all[i].contents.name = n].contents]
Location(all, name) ==
  all[CHOOSE i \in 1..Len(all) : all[i].contents.name = name].path

\* semver.satisfies(version, '^' + range), for major versions above zero.
Satisfies(version, range) ==
  /\ Len(version) = 3 /\ Len(range) = 3
  /\ version[1] = range[1]
  /\ \/ version[2] > range[2]
     \/ version[2] = range[2] /\ version[3] >= range[3]

\* new PackageGraph(packages, 'allDependencies'): a dependency of any
\* collection on a package of the graph is a local dependency when it is a
\* directory reference or a range the package's version satisfies.
localDependencies(pkgs, name) ==
  {d \in DOMAIN pkgs[name].dependencies :
     /\ d \in DOMAIN pkgs
     /\ \/ pkgs[name].dependencies[d].type = "directory"
        \/ Satisfies(pkgs[d].version, pkgs[name].dependencies[d].range)}
localDependents(pkgs, name) ==
  {m \in DOMAIN pkgs : name \in localDependencies(pkgs, m)}

\* Every package of the graph taken as a dependent.
collectEveryPackage(pkgs, nodes) == DOMAIN pkgs

\* collectDependents: the nodes together with their transitive local
\* dependents.
RECURSIVE collectDependents(_, _)
collectDependents(pkgs, nodes) ==
  LET more == nodes \cup UNION {localDependents(pkgs, n) : n \in nodes}
  IN IF more = nodes THEN nodes ELSE collectDependents(pkgs, more)

\* cu.collectPackages(packageGraph, {isCandidate}): the candidates and their
\* dependents, in the order of the graph.
collectPackages(all, candidates) ==
  LET names == [i \in 1..Len(all) |-> all[i].contents.name]
      updates == collectDependents(ByName(all), candidates)
  IN SelectSeq(names, LAMBDA n : n \in updates)

\* ---- runLernaVersion

\* A dependent's version patched although release-please updated it.
VersionOfAlwaysPatched(updated, node) == SemverInc(node.version, "patch")

\* The version of a node of updatesWithDependents: its own when
\* release-please updated it, a patch increment otherwise (NotAVersion for
\* semver.inc's null).
VersionOf(updated, node) ==
  IF node.location \in DOMAIN updated THEN node.version
  ELSE SemverInc(node.version, "patch")

\* A version without a patch increment taken as a version all the same.
InvalidVersionNever(updated, node) == FALSE

\* patch === null: the node goes to invalidVersions and gets no version.
InvalidVersion(updated, node) == VersionOf(updated, node) = NotAVersion

\* A local dependency left as it is.
updateLocalDependencyNot(resolved, depVersion, savePrefix) == resolved

\* pkg.updateLocalDependency(resolved, depVersion, '^')
updateLocalDependency(resolved, depVersion, savePrefix) ==
  Dependency(resolved.kind, "range", depVersion)

\* A runner that rewrites directory references like ranges.
runnerOfEveryType(all, versions, pkg) ==
  LET local == localDependencies(ByName(all), pkg.name)
  IN [pkg EXCEPT
        !.version = versions[pkg.name],
        !.dependencies =
          [d \in DOMAIN pkg.dependencies |->
             IF d \in local /\ d \in DOMAIN versions
               THEN updateLocalDependency(pkg.dependencies[d], versions[d], "^")
               ELSE pkg.dependencies[d]]]

\* The runner: set the version, then rewrite every local dependency of the
\* graph that has a new version and is no directory reference.
runner(all, versions, pkg) ==
  LET local == localDependencies(ByName(all), pkg.name)
  IN [pkg EXCEPT
        !.version = versions[pkg.name],
        !.dependencies =
          [d \in DOMAIN pkg.dependencies |->
             IF /\ d \in local
                /\ d \in DOMAIN versions
                /\ pkg.dependencies[d].type # "directory"
               THEN updateLocalDependency(pkg.dependencies[d], versions[d], "^")
               ELSE pkg.dependencies[d]]]

\* ---- @lerna/run-topologically

\* The candidates without the invalid ones and without the packages that
\* declare a dependency on an invalid one.
RunnableWithoutTheirDependents ==
  {n \in Range(updatesWithDependents) :
     /\ n \notin invalidVersions
     /\ DOMAIN ByName(allPkgs)[n].dependencies \cap invalidVersions = {}}

\* The packages handed to runTopologically: the candidates not in
\* invalidVersions.
Runnable == {n \in Range(updatesWithDependents) : n \notin invalidVersions}

\* The graph runTopologically builds of them, without the packages done.
Waiting == Runnable \ {NameAt(l) : l \in Range(allUpdated)}
PendingDependencies(name) ==
  localDependencies([n \in Runnable |-> ByName(allPkgs)[n]], name) \cap Waiting

RECURSIVE PendingClosure(_)
PendingClosure(names) ==
  LET more == names \cup UNION {PendingDependencies(n) : n \in names}
  IN IF more = names THEN names ELSE PendingClosure(more)

\* Any package not yet done, whatever its dependencies.
AvailableInAnyOrder == Waiting

\* Only the packages whose dependencies are done, as if cycles were rejected.
AvailableLeaves == {n \in Waiting : PendingDependencies(n) = {}}

\* The packages runTopologically may hand to the runner next: those whose
\* dependencies are done, or, when there is none, those on a cycle.
Available ==
  LET leaves == {n \in Waiting : PendingDependencies(n) = {}}
  IN IF leaves # {} THEN leaves
     ELSE {n \in Waiting : n \in PendingClosure(PendingDependencies(n))}

\* ---- updatePkgsWithPRData

\* The first loop: an entry of a node package that the runner returned keeps
\* the file data it has for its package.json.
MergedEntry(entry, updated) ==
  LET filePath == DescriptorPath(entry.config.path)
  IN IF entry.config.releaseType # "node" \/ filePath \notin Range(updated)
       THEN entry
       ELSE [entry EXCEPT !.prData.changes =
               IF filePath \in DOMAIN @ THEN @
               ELSE @ @@ (filePath :>
                            FileData(packageJsonStringify(
                                       graphPkgs[NameAt(filePath)])))]

\* The file paths the first loop deletes from allUpdated.
Merged(entries, updated) ==
  {DescriptorPath(entries[i].config.path) :
     i \in {i \in 1..Len(entries) : entries[i].config.releaseType = "node"}}
  \cap Range(updated)

\* A new entry made of the package.json as it was gathered.
NewEntryOfGathered(filePath) ==
  LET update == ByName(allPkgs)[NameAt(filePath)]
      pkg == parsedPackages[CHOOSE i \in 1..Len(parsedPackages) :
                              DescriptorPath(parsedPackages[i].path) = filePath]
  IN ManifestPackageWithPRData(
       [pkg EXCEPT !.packageName = update.name], update.version,
       filePath :> FileData(packageJsonStringify(update)))

\* The second loop: a new entry for an updated package without one.
NewEntry(filePath) ==
  LET update == graphPkgs[NameAt(filePath)]
      pkg == parsedPackages[CHOOSE i \in 1..Len(parsedPackages) :
                              DescriptorPath(parsedPackages[i].path) = filePath]
  IN ManifestPackageWithPRData(
       [pkg EXCEPT !.packageName = update.name], update.version,
       filePath :> FileData(packageJsonStringify(update)))

InParsedPackages(filePath) ==
  \E i \in 1..Len(parsedPackages) :
    DescriptorPath(parsedPackages[i].path) = filePath

\* The new entries put in front of the existing ones.
updatePkgsWithPRDataNewFirst(entries, versions, updated) ==
  LET merged == Merged(entries, updated)
      rest == SelectSeq(updated, LAMBDA f : f \notin merged /\ InParsedPackages(f))
      paths == {PkgPath(NameAt(f)) : f \in merged \cup Range(rest)}
  IN [pkgs |-> [i \in 1..Len(rest) |-> NewEntry(rest[i])]
                 \o [i \in 1..Len(entries) |-> MergedEntry(entries[i], updated)],
      versions |->
        [p \in DOMAIN versions \cup paths |->
           IF p \in paths
             THEN graphPkgs[CHOOSE n \in Pkgs : PkgPath(n) = p].version
             ELSE versions[p]]]

\* updatePkgsWithPRData(pkgsWithPRData, newManifestVersions, allUpdated)
updatePkgsWithPRData(entries, versions, updated) ==
  LET merged == Merged(entries, updated)
      rest == SelectSeq(updated, LAMBDA f : f \notin merged /\ InParsedPackages(f))
      paths == {PkgPath(NameAt(f)) : f \in merged \cup Range(rest)}
  IN [pkgs |-> [i \in 1..Len(entries) |-> MergedEntry(entries[i], updated)]
                 \o [i \in 1..Len(rest) |-> NewEntry(rest[i])],
      versions |->
        [p \in DOMAIN versions \cup paths |->
           IF p \in paths
             THEN graphPkgs[CHOOSE n \in Pkgs : PkgPath(n) = p].version
             ELSE versions[p]]]

\* ---- run

\* The orchestrator's variables while the propagator is looked at on its own.
ManifestIdle ==
  /\ configDoc = ConfigDoc("missing", FALSE, <<>>, FALSE)
  /\ manifestDoc = ManifestDoc("missing", EmptyEntries)
  /\ shaManifestDoc = ManifestDoc("missing", EmptyEntries)
  /\ mergedPR = NoPR
  /\ remoteReleases = {}
  /\ runs = 0
  /\ op = "none"
  /\ pc = "idle"
  /\ releasesAtStart = {}
  /\ FreshRun

\* run(newManifestVersions, pkgsWithPRData) is called with what the releasers
\* produced for a workspace.
InitNodeWorkspace ==
  /\ ManifestIdle
  /\ InstanceIdle
  /\ \E g \in Declarations, v \in VersionFields, b \in Bumps, t \in ReleaseTypes :
       /\ workspace = Workspace(g, v)
       /\ parsedPackages =
            [i \in 1..Len(PkgOrder) |->
               ParsedPackage(PkgPath(PkgOrder[i]), t[PkgOrder[i]], Undefined)]
       /\ newManifestVersions = UpstreamVersions(b)
       /\ pkgsWithPRData = UpstreamPRData(b, t, Workspace(g, v))
       /\ given = [versions |-> UpstreamVersions(b),
                   pkgs |-> UpstreamPRData(b, t, Workspace(g, v))]
  /\ ppc = "filterPackages"
  /\ rpUpdatedPkgs = <<>>
  /\ pkgIdx = 1
  /\ allPkgs = <<>>
  /\ fetched = <<>>
  /\ updatesWithDependents = <<>>
  /\ updatesVersions = <<>>
  /\ invalidVersions = {}
  /\ graphPkgs = <<>>
  /\ allUpdated = <<>>

\* Every package read from the remote, updated or not.
alreadyUpdatedNever(updatedPkgs, path) == FALSE

\* const alreadyUpdated = rpUpdatedPkgs.get(path); if (alreadyUpdated)
alreadyUpdated(updatedPkgs, path) == path \in DOMAIN updatedPkgs

\* const rpUpdatedPkgs = this.filterPackages(pkgsWithPRData)
FilterPackages ==
  /\ ppc = "filterPackages"
  /\ rpUpdatedPkgs' = filterPackages(pkgsWithPRData)
  /\ ppc' = "getAllWorkspacePackages"
  /\ UNCHANGED <<manifestVars, instanceVars, workspace, parsedPackages, given,
                 newManifestVersions, pkgsWithPRData, pkgIdx, allPkgs, fetched,
                 updatesWithDependents, updatesVersions, invalidVersions,
                 graphPkgs, allUpdated>>

\* One turn of getAllWorkspacePackages' loop: a package that is no node
\* package is passed over, one release-please updated is taken as updated,
\* any other is read from the remote.
GetAllWorkspacePackages ==
  /\ ppc = "getAllWorkspacePackages"
  /\ pkgIdx <= Len(parsedPackages)
  /\ LET pkg == parsedPackages[pkgIdx]
         path == DescriptorPath(pkg.path)
     IN IF pkg.releaseType # "node"
          THEN UNCHANGED <<allPkgs, fetched>>
          ELSE IF alreadyUpdated(rpUpdatedPkgs, path)
            THEN /\ allPkgs' = Append(allPkgs, [path |-> path,
                                                contents |-> rpUpdatedPkgs[path]])
                 /\ UNCHANGED fetched
            ELSE /\ fetched' = Append(fetched, path)
                 /\ allPkgs' =
                      Append(allPkgs,
                             [path |-> path,
                              contents |-> JsonParse(packageJsonStringify(
                                                       workspace[NameAt(path)]))])
  /\ pkgIdx' = pkgIdx + 1
  /\ UNCHANGED <<manifestVars, instanceVars, workspace, parsedPackages, given,
                 newManifestVersions, pkgsWithPRData, ppc, rpUpdatedPkgs,
                 updatesWithDependents, updatesVersions, invalidVersions,
                 graphPkgs, allUpdated>>

\* runLernaVersion up to the call of runTopologically: the graph, the
\* candidates with their dependents, and the version of each.
RunLernaVersion ==
  /\ ppc = "getAllWorkspacePackages"
  /\ pkgIdx > Len(parsedPackages)
  /\ LET pkgs == ByName(allPkgs)
         node(n) == [name |-> n, version |-> pkgs[n].version,
                     location |-> Location(allPkgs, n)]
         updates == collectPackages(
                      allPkgs,
                      {n \in DOMAIN pkgs : node(n).location \in DOMAIN rpUpdatedPkgs})
         invalid == {n \in Range(updates) :
                       InvalidVersion(rpUpdatedPkgs, node(n))}
     IN /\ updatesWithDependents' = updates
        /\ invalidVersions' = invalid
        /\ updatesVersions' = [n \in Range(updates) \ invalid |->
                                 VersionOf(rpUpdatedPkgs, node(n))]
        /\ graphPkgs' = pkgs
  /\ ppc' = "runTopologically"
  /\ UNCHANGED <<manifestVars, instanceVars, workspace, parsedPackages, given,
                 newManifestVersions, pkgsWithPRData, rpUpdatedPkgs, pkgIdx,
                 allPkgs, fetched, allUpdated>>

\* The versions as the graph has them when a package is processed: the new
\* one for the packages already returned, the old one for the others.
VersionsAsProcessed(name) ==
  [n \in DOMAIN updatesVersions |->
     IF n = name \/ DescriptorPath(PkgPath(n)) \in Range(allUpdated)
       THEN updatesVersions[n]
       ELSE graphPkgs[n].version]

\* updatesVersions.get(...) in the runner: the map filled before the pass,
\* whichever package is processed.
VersionsFor(name) == updatesVersions

\* runTopologically hands the next package to the runner.
Runner ==
  /\ ppc = "runTopologically"
  /\ \E name \in Available :
       /\ graphPkgs' = [graphPkgs EXCEPT
                          ![name] = runner(allPkgs, VersionsFor(name), @)]
       /\ allUpdated' = Append(allUpdated, Location(allPkgs, name))
  /\ UNCHANGED <<manifestVars, instanceVars, workspace, parsedPackages, given,
                 newManifestVersions, pkgsWithPRData, ppc, rpUpdatedPkgs, pkgIdx,
                 allPkgs, fetched, updatesWithDependents, updatesVersions,
                 invalidVersions>>

\* runTopologically has returned: updatePkgsWithPRData, and run returns the
\* pair.
UpdatePkgsWithPRData ==
  /\ ppc = "runTopologically"
  /\ Waiting = {}
  /\ LET result == updatePkgsWithPRData(pkgsWithPRData, newManifestVersions,
                                        allUpdated)
     IN /\ pkgsWithPRData' = result.pkgs
        /\ newManifestVersions' = result.versions
        /\ parsedPackages' =
             [i \in 1..Len(parsedPackages) |->
                IF DescriptorPath(parsedPackages[i].path)
                     \in Range(allUpdated) \ Merged(pkgsWithPRData, allUpdated)
                  THEN [parsedPackages[i] EXCEPT
                          !.packageName =
                            graphPkgs[NameAt(DescriptorPath(
                                               parsedPackages[i].path))].name]
                  ELSE parsedPackages[i]]
  /\ ppc' = "returned"
  /\ UNCHANGED <<manifestVars, instanceVars, workspace, given, rpUpdatedPkgs, pkgIdx, allPkgs,
                 fetched, updatesWithDependents, updatesVersions,
                 invalidVersions, graphPkgs, allUpdated>>

NextNodeWorkspace ==
  \/ FilterPackages
  \/ GetAllWorkspacePackages
  \/ RunLernaVersion
  \/ Runner
  \/ UpdatePkgsWithPRData

SpecNodeWorkspace == InitNodeWorkspace /\ [][NextNodeWorkspace]_vars

\* ------------------------------------------- the tip documents of an instance
\*
\* One Manifest instance reading the configuration and the manifest at the
\* tip of the default branch through getConfigJson and getManifestJson, any
\* number of times and in any order, as validate() and the later steps of
\* its runs do, while the default branch may be pushed to.

\* Calls of the two getters in one behaviour.
MaxCalls == 4

\* Pushes to the default branch in one behaviour.
MaxTipChanges == 1

\* 'release-as' of a package and of the repository: absent, empty, a version.
ReleaseAsValues == {Undefined, "", "1.2.3"}
DefaultReleaseAsValues == {Undefined, "", "2.0.0"}

\* A configuration of package a with a choice of the two.
ReleaseAsConfigDoc(pkgRA, defaultRA) ==
  [ConfigDoc("object", TRUE, <<"a">>, FALSE)
     EXCEPT !.releaseAs = defaultRA,
            !.packageReleaseAs = [p \in {"a"} |-> pkgRA]]

\* A configuration of two packages under a repository default: a overrides it
\* with the empty string, b has none of its own.
TwoPackagesConfigDoc ==
  [ConfigDoc("object", TRUE, <<"a", "b">>, FALSE)
     EXCEPT !.releaseAs = "2.0.0",
            !.packageReleaseAs =
              [p \in {"a", "b"} |-> IF p = "a" THEN "" ELSE Undefined]]

\* The documents at the tip when the instance is constructed.
TipConfigDocs ==
  {ConfigDoc(k, FALSE, <<>>, FALSE) : k \in {"missing", "badjson", "null"}}
  \cup {ReleaseAsConfigDoc(p, d) :
          p \in ReleaseAsValues, d \in DefaultReleaseAsValues}
  \cup {TwoPackagesConfigDoc}
TipManifestDocs ==
  {ManifestDoc(k, EmptyEntries) : k \in {"missing", "badjson", "null"}}
  \cup {ManifestDoc("object", [p \in {"a"} |-> JsonString(TipVersion)])}

\* The documents a push may put there.
PushedConfigDocs ==
  {TwoPackagesConfigDoc, ConfigDoc("missing", FALSE, <<>>, FALSE)}
PushedManifestDocs ==
  {ManifestDoc("object", [p \in {"a"} |-> JsonString("1.0.1")]),
   ManifestDoc("missing", EmptyEntries)}

\* The orchestrator's run state, which the getters do not touch.
runIdleVars == <<shaManifestDoc, mergedPR, remoteReleases, runs, op, pc, ret,
                 runVars, historyVars, prVars>>

\* A Manifest is constructed while the tip holds any of the documents.
InitTipDocuments ==
  /\ configDoc \in TipConfigDocs
  /\ manifestDoc \in TipManifestDocs
  /\ shaManifestDoc = ManifestDoc("missing", EmptyEntries)
  /\ mergedPR = NoPR
  /\ remoteReleases = {}
  /\ runs = 0
  /\ op = "none"
  /\ pc = "idle"
  /\ releasesAtStart = {}
  /\ FreshRun
  /\ PluginIdle
  /\ InstanceIdle

\* One call of a getter: whether it read the remote, the document the remote
\* held, and what the caller got.
Call(getter, remoteRead, doc, result) ==
  [getter |-> getter, fetched |-> remoteRead, doc |-> doc, result |-> result]

\* A field never taken as loaded: every call reads the remote.
IsCachedNever(field) == FALSE

\* if (!this.configFile), if (!this.headManifest): the field holds a value,
\* and not null.
IsCached(field) == field.status = "value" /\ field.value.kind # "null"

\* getConfigJson(): the cached configuration, or the document read at the
\* tip, parsed and cached; a throw leaves the field as it was.
GetConfigJson ==
  /\ Len(calls) < MaxCalls
  /\ IF IsCached(configFile)
       THEN /\ calls' = Append(calls, Call("getConfigJson", FALSE, configDoc,
                                           configFile))
            /\ UNCHANGED configFile
       ELSE LET r == getConfigJson(configDoc)
            IN /\ calls' = Append(calls, Call("getConfigJson", TRUE, configDoc,
                                              r))
               /\ configFile' = IF r.status = "throw" THEN configFile ELSE r
  /\ UNCHANGED <<configDoc, manifestDoc, headManifest, tipChanges, runIdleVars,
                 pluginVars>>

\* getManifestJson(): the cached head manifest, or the document read at the
\* tip and assigned to the field; a throw leaves the field as it was.
GetManifestJson ==
  /\ Len(calls) < MaxCalls
  /\ IF IsCached(headManifest)
       THEN /\ calls' = Append(calls, Call("getManifestJson", FALSE,
                                           manifestDoc, headManifest))
            /\ UNCHANGED headManifest
       ELSE LET r == getManifestJson(manifestDoc, FALSE)
            IN /\ calls' = Append(calls, Call("getManifestJson", TRUE,
                                              manifestDoc, r))
               /\ headManifest' = IF r.status = "throw" THEN headManifest ELSE r
  /\ UNCHANGED <<configDoc, manifestDoc, configFile, tipChanges, runIdleVars,
                 pluginVars>>

\* Someone pushes to the default branch: another configuration or another
\* manifest is at the tip.
TipChanges ==
  /\ tipChanges < MaxTipChanges
  /\ tipChanges' = tipChanges + 1
  /\ \/ /\ configDoc' \in PushedConfigDocs \ {configDoc}
        /\ UNCHANGED manifestDoc
     \/ /\ manifestDoc' \in PushedManifestDocs \ {manifestDoc}
        /\ UNCHANGED configDoc
  /\ UNCHANGED <<configFile, headManifest, calls, runIdleVars, pluginVars>>

NextTipDocuments ==
  \/ GetConfigJson
  \/ GetManifestJson
  \/ TipChanges

SpecTipDocuments == InitTipDocuments /\ [][NextTipDocuments]_vars

\* ------------------------------------------------------------------ claims

PathsOf(pkgs) == [i \in 1..Len(pkgs) |-> pkgs[i].path]

IsPrefix(s, t) == Len(s) <= Len(t) /\ \A i \in 1..Len(s) : s[i] = t[i]

\* A githubRelease run that went through its release loop and returned.
ReleaseRunReturned ==
  op = "githubRelease" /\ pc = "done" /\ ret = "releases"

\* This run moved the merged pull request from pending to released.
Relabeled == labelOps = <<"add released", "remove pending">>

\* The error says that the release's tag already exists.
IsDuplicateTagError(err) ==
  err.status = 422 /\ Len(err.errors) > 0 /\ IsTagConflict(err)

\* createRelease for path p failed in this run, and not with the tag conflict.
FailedOtherThanConflict(p) ==
  /\ p \in DOMAIN answers
  /\ answers[p].kind = "error"
  /\ ~IsDuplicateTagError(answers[p])

\* C1: at the end of a githubRelease run that entered the release loop, the
\* merged pull request is re-labeled from pending to released if and only if
\* every candidate of the run has its release (none failed, none was skipped).
C1_RelabeledIffEveryCandidateReleased ==
  (ReleaseRunReturned /\ Len(packages) > 0) =>
    (Relabeled <=> \A i \in 1..Len(packages) :
                     packages[i].path \in remoteReleases)

\* C2: every createRelease failure other than the duplicate-tag conflict marks
\* the batch incomplete and posts a failure comment, so the released label is
\* not applied in that run; 422s with another code or field included.
C2_EveryOtherFailureMarksIncomplete ==
  ReleaseRunReturned =>
    \A p \in DOMAIN answers :
      FailedOtherThanConflict(p) =>
        /\ ~allReleasesCreated
        /\ Comment("failure", p) \in Range(comments)
        /\ ReleasedLabel \notin mergedPR.labels

\* C3: a createRelease failure reporting that the tag already exists posts no
\* comment for that package, is never what marks the batch incomplete, and
\* does not keep the pull request from being labeled released.
C3_TagConflictIsSuccess ==
  op = "githubRelease" =>
    /\ \A p \in DOMAIN answers :
         answers[p] = TagConflict =>
           /\ Comment("failure", p) \notin Range(comments)
           /\ Comment("success", p) \notin Range(comments)
    /\ (Len(packages) > 0 /\ ~allReleasesCreated) =>
         \E p \in DOMAIN answers : FailedOtherThanConflict(p)
    /\ (ReleaseRunReturned /\ Len(packages) > 0
          /\ \A p \in DOMAIN answers : ~FailedOtherThanConflict(p)) =>
         ReleasedLabel \in mergedPR.labels

C3_Witness ==
  /\ ReleaseRunReturned
  /\ \E p \in DOMAIN answers : answers[p] = TagConflict
  /\ Relabeled

\* The candidates with a known last version, in resolver order.
KnownVersionPaths ==
  PathsOf(SelectSeq(packages, LAMBDA pkg : pkg.lastVersion # Undefined))

C5_NoSecondAttempt ==
  op = "githubRelease" =>
    \A p \in releasesAtStart :
      /\ p \notin Range(attempts)
      /\ Comment("failure", p) \notin Range(comments)

\* C5 amended: a later run does call createRelease again for a package whose
\* release an earlier run created. For a package that is not a draft no second
\* release is created; when the remote answers with the tag conflict no
\* comment is posted for it, and if every candidate is answered that way the
\* pull request is labeled released.
C5_RetryCreatesNoDuplicate ==
  op = "githubRelease" =>
    /\ \A i \in 1..Len(packages) :
         LET p == packages[i].path IN
         (p \in releasesAtStart /\ ~packages[i].releaseDraft) =>
           /\ p \notin created
           /\ (p \in DOMAIN answers /\ answers[p] = TagConflict) =>
                \A c \in Range(comments) : c.path # p
    /\ (ReleaseRunReturned /\ Len(packages) > 0
          /\ \A i \in 1..Len(packages) :
               /\ packages[i].path \in releasesAtStart
               /\ packages[i].path \in DOMAIN answers
               /\ answers[packages[i].path] = TagConflict) =>
         Relabeled

C5_Witness ==
  /\ ReleaseRunReturned
  /\ runs = 2
  /\ Len(packages) = 2
  /\ \A i \in 1..2 : packages[i].path \in releasesAtStart
                     /\ answers[packages[i].path] = TagConflict
  /\ Relabeled

\* C6: after a githubRelease run in which some package's createRelease failed
\* other than by the tag conflict, the merged pull request still carries the
\* pending label and not the released label.
C6_FailureLeavesPending ==
  (ReleaseRunReturned /\ \E p \in DOMAIN answers : FailedOtherThanConflict(p)) =>
    /\ PendingLabel \in mergedPR.labels
    /\ ReleasedLabel \notin mergedPR.labels

\* C7: a githubRelease run that finds no merged release pull request, one
\* without the pending label or one with the released label creates no
\* release, posts no comment and changes no label; and while the merged pull
\* request carries the released label no run is in, or on its way into, the
\* release loop, so createRelease is never called for it again.
C7_BailOutDoesNothing ==
  op = "githubRelease" =>
    /\ (lastMergedPR # NotFetched
          /\ (\/ ~lastMergedPR.exists
              \/ PendingLabel \notin lastMergedPR.labels
              \/ ReleasedLabel \in lastMergedPR.labels)) =>
         /\ pc = "done" /\ ret = Undefined
         /\ attempts = <<>> /\ created = {}
         /\ comments = <<>> /\ labelOps = <<>>
         /\ remoteReleases = releasesAtStart
         /\ mergedPR = lastMergedPR
    /\ ReleasedLabel \in mergedPR.labels =>
         pc \notin {"packages", "loop", "commentSuccess", "commentFailure",
                    "addLabels"}

C7_Witness ==
  /\ op = "githubRelease" /\ pc = "done" /\ ret = Undefined
  /\ runs = 2
  /\ releasesAtStart # {}
  /\ lastMergedPR.exists
  /\ ReleasedLabel \in lastMergedPR.labels

\* The documents are well formed: the configuration is an object listing at
\* least one package and the manifest an object of string values.
WellFormed ==
  /\ configDoc.kind = "object"
  /\ configDoc.hasPackages
  /\ Len(configDoc.packages) >= 1
  /\ manifestDoc.kind = "object"
  /\ \A p \in DOMAIN manifestDoc.entries :
       manifestDoc.entries[p].type = "string"

\* C8: when the configuration or the manifest is malformed, pullRequest and
\* githubRelease return (they do not throw) right after validation, having
\* opened no pull request, changed no label, posted no comment and created no
\* release: the remote stays as Init gives it with malformed documents, a
\* pending pull request and no release.
C8_InvalidRunMutatesNothing ==
  (pc \notin {"idle", "validate"} /\ ~WellFormed) =>
    /\ pc = "done" /\ ret = Undefined
    /\ lastMergedPR = NotFetched
    /\ attempts = <<>> /\ created = {}
    /\ comments = <<>> /\ labelOps = <<>>
    /\ ~opened.called
    /\ remoteReleases = {}
    /\ mergedPR.labels = {PendingLabel}

C8_Witness ==
  /\ op = "pullRequest" /\ pc = "done" /\ runs = 2
  /\ manifestDoc.kind = "object"
  /\ \E p \in DOMAIN manifestDoc.entries : manifestDoc.entries[p] = JsonNumber
  /\ configDoc \in ValidConfigDocs

\* C9: validate() returns true exactly when the configuration parses as an
\* object listing at least one package and the manifest parses as an object
\* all of whose values are strings.
C9_ValidateExactlyWellFormed ==
  pc \notin {"idle", "validate"} => (valid <=> WellFormed)

C9_Witness ==
  /\ pc = "lastMergedPR" /\ valid
  /\ DOMAIN manifestDoc.entries = Paths
  /\ Len(configDoc.packages) = 2

\* C10: in a pullRequest run whose releasers returned no OpenPROptions at all,
\* the run returns undefined without opening a pull request or adding a label.
C10_NoChangesNoPullRequest ==
  (op = "pullRequest" /\ pc \in {"openPR", "addPending", "done"} /\ valid
     /\ Len(openPRPackages) = 0) =>
    /\ pc = "done" /\ ret = Undefined
    /\ ~opened.called /\ opened.labels = {}
    /\ labelOps = <<>>

C10_Witness ==
  /\ op = "pullRequest" /\ pc = "done" /\ valid
  /\ Len(packages) = 2
  /\ Len(openPRPackages) = 0

\* A pullRequest run that has returned.
PullRequestReturned == op = "pullRequest" /\ pc = "done"

\* C11 as stated: a pullRequest run opens at most one pull request, and a run
\* in which at least one package produced OpenPROptions has opened exactly
\* one by the time it returns; an opened pull request carries the pending
\* label when the run returns its number.
C11_ExactlyOnePullRequest ==
  /\ Len(openPRCalls) <= 1
  /\ (PullRequestReturned /\ Len(openPRPackages) > 0) => opened.number # 0
  /\ (PullRequestReturned /\ opened.number # 0) =>
       (ret = "pr" /\ PendingLabel \in opened.labels)

\* C11 (amended): a pullRequest run calls gh.openPR at most once, and a run
\* that returns has called it exactly once if at least one package produced
\* OpenPROptions and not at all otherwise; the call passes the pending label;
\* the run returns the number exactly when the remote answered with one, and
\* then the pending label has been added to that pull request; when the
\* remote answered with nothing the run returns undefined and adds no label.
C11_OneOpenPRCallLabeledBeforeReturn ==
  /\ Len(openPRCalls) <= 1
  /\ Len(openPRCalls) = 1 <=> opened.called
  /\ \A i \in 1..Len(openPRCalls) : openPRCalls[i].labels = {PendingLabel}
  /\ PullRequestReturned =>
       /\ Len(openPRCalls) = 1 <=> Len(openPRPackages) > 0
       /\ ret = "pr" <=> opened.number # 0
       /\ opened.number # 0 => opened.labels = {PendingLabel}
       /\ opened.number = 0 => (ret = Undefined /\ opened.labels = {})

\* A run that opened a pull request, labeled it and returned its number.
C11_Witness ==
  /\ PullRequestReturned
  /\ Len(openPRPackages) > 0
  /\ opened.number # 0
  /\ ret = "pr"
  /\ PendingLabel \in opened.labels

\* The plugins of the repository, in registration order: the workspace
\* propagator (NodeWorkspaceDependencyUpdates) is the one ManifestPlugin.
Plugins == <<"node-workspace">>

\* The (versions, package-PR-data) pair the plugins consume and return.
Pair(versions, pkgs) == [versions |-> versions, pkgs |-> pkgs]

\* C12: when the pull request is assembled and gh.openPR is called, every
\* registered plugin has been run once, in order, the first on the pair the
\* releasers produced and each next one on the pair the previous returned,
\* and body, file changes and manifest update are built from the pair the
\* last plugin returned.
C12_PluginsAppliedBeforeAssembly ==
  Len(openPRCalls) > 0 =>
    /\ [i \in 1..Len(pluginRuns) |-> pluginRuns[i].plugin] = Plugins
    /\ pluginRuns[1].consumed = Pair(manifestUpdates, openPRPackages)
    /\ \A i \in 2..Len(pluginRuns) :
         pluginRuns[i].consumed = pluginRuns[i - 1].returned
    /\ LET last == pluginRuns[Len(pluginRuns)].returned
           built == buildManifestPR(last.versions, last.pkgs)
       IN /\ openPRCalls[1].body = built.body
          /\ openPRCalls[1].updates = built.updates

\* The releaser calls of this run that returned OpenPROptions, in order.
Producers == SelectSeq(releaserCalls, LAMBDA c : c.options.present)

RECURSIVE Flatten(_)
Flatten(seqs) ==
  IF Len(seqs) = 0 THEN <<>> ELSE Head(seqs) \o Flatten(Tail(seqs))

\* C13: the pull request handed to gh.openPR has, for every package whose
\* releaser returned OpenPROptions and in the order the releasers ran, one
\* body section with that package's name, version and changelog, and all of
\* that package's file updates; after them comes the update of the manifest
\* document, the only one in the change set, whose version map has exactly
\* those packages as keys, each mapped to the version its releaser computed.
C13_AggregatedPullRequest ==
  \A k \in 1..Len(openPRCalls) :
    LET call == openPRCalls[k]
        n == Len(Producers)
        last == call.updates[Len(call.updates)]
    IN /\ Len(call.body) = n
       /\ \A i \in 1..n :
            /\ call.body[i].name = Producers[i].path
            /\ call.body[i].version = Producers[i].options.version
            /\ call.body[i].changelogEntry = Producers[i].options.changelogEntry
       /\ Len(call.updates) > 0
       /\ SubSeq(call.updates, 1, Len(call.updates) - 1) =
            Flatten([i \in 1..n |-> Producers[i].options.updates])
       /\ last.path = ManifestFileName
       /\ \A i \in 1..(Len(call.updates) - 1) :
            call.updates[i].path # ManifestFileName
       /\ DOMAIN last.versions = {Producers[i].path : i \in 1..n}
       /\ \A i \in 1..n :
            last.versions[Producers[i].path] = Producers[i].options.version

\* A pull request aggregating two packages with different next versions.
C13_Witness ==
  /\ Len(openPRCalls) = 1
  /\ Len(Producers) = 2
  /\ Producers[1].options.version # Producers[2].options.version
  /\ Len(openPRCalls[1].updates) > Len(Producers) + 1

\* The resolver has just returned in this run: pullRequest is about to run
\* the releasers, githubRelease is about to enter its loop.
ResolverReturned ==
  \/ op = "pullRequest" /\ pc = "releasers" /\ idx = 1
  \/ op = "githubRelease" /\ pc = "loop" /\ idx = 1

\* The commit list the resolver was given in this run.
ResolverCommits ==
  IF op = "pullRequest" THEN commits ELSE <<Commit(lastMergedPR.files)>>

\* The packages of the configuration document.
Configured == Range(configDoc.packages)

\* Path p has at least one commit attributed to it.
Attributable(p) ==
  \E i \in 1..Len(ResolverCommits) : p \in ResolverCommits[i].files

\* C14: the resolver's result has exactly one PackageReleaseData for every
\* configured package with at least one attributable commit and none for any
\* other path, whatever the manifests say about the package's version.
C14_OnePerPackageWithCommits ==
  ResolverReturned =>
    \A p \in Paths :
      Cardinality({i \in 1..Len(packages) : packages[i].path = p}) =
        IF p \in Configured /\ Attributable(p) THEN 1 ELSE 0

\* The resolver returned a package that has no version in any manifest, and
\* left out a configured package without commits.
C14_Witness ==
  /\ ResolverReturned
  /\ \E i \in 1..Len(packages) : packages[i].lastVersion = Undefined
  /\ \E p \in Configured : ~Attributable(p)

\* The resolver was given a sha: githubRelease always passes the merged pull
\* request's, pullRequest passes it when there is a merged pull request.
HasSha == op = "githubRelease" \/ lastMergedPR.exists

\* The versions of the manifest at the resolved reference: at the sha when
\* the manifest can be read there, at the tip otherwise.
ReferenceVersions ==
  IF HasSha /\ shaManifestDoc.kind = "object"
    THEN VersionsOf(shaManifestDoc)
    ELSE VersionsOf(manifestDoc)

\* The run threw inside the resolver: before any candidate was returned.
ThrewInResolver == pc = "threw" /\ packages = <<>>

\* C15: a candidate whose path has no version at the resolved reference gets
\* the version the tip manifest has for it, or undefined when the tip
\* manifest has none either; a candidate whose version is found at the
\* resolved reference keeps exactly that version, whatever the tip says; and
\* a missing version never makes the resolver throw (it throws only when the
\* manifest pinned to the sha cannot be parsed).
C15_MissingVersionFallsBackToTip ==
  /\ ResolverReturned =>
       \A i \in 1..Len(packages) :
         LET p == packages[i].path IN
         packages[i].lastVersion =
           IF p \in DOMAIN ReferenceVersions THEN ReferenceVersions[p]
           ELSE IF p \in DOMAIN manifestDoc.entries
             THEN manifestDoc.entries[p].v
             ELSE Undefined
  /\ ThrewInResolver => (HasSha /\ shaManifestDoc.kind = "badjson")

\* In one result, a candidate missing at the sha got the tip's version and a
\* candidate found at the sha kept the sha's version although the tip has
\* another one for it.
C15_Witness ==
  /\ ResolverReturned
  /\ HasSha /\ shaManifestDoc.kind = "object"
  /\ \E i, j \in 1..Len(packages) :
       /\ packages[i].path \notin DOMAIN shaManifestDoc.entries
       /\ packages[i].lastVersion = TipVersion
       /\ packages[j].path \in DOMAIN manifestDoc.entries
       /\ packages[j].lastVersion = ShaVersion

\* C16: in a pullRequest run every candidate gets its releaser call, in
\* order, whether or not its lastVersion is resolved: a candidate whose
\* lastVersion is undefined is handed no last-release marker, so that what its
\* releaser proposes is its default initial version; a candidate with a
\* lastVersion is handed the marker of that version; and once the loop over
\* the candidates is left, every candidate has been handed to its releaser.
C16_UnresolvedVersionUsesReleaserDefault ==
  op = "pullRequest" =>
    /\ Len(releaserCalls) <= Len(packages)
    /\ \A k \in 1..Len(releaserCalls) :
         LET call == releaserCalls[k] IN
         /\ call.path = packages[k].path
         /\ IF packages[k].lastVersion = Undefined
              THEN /\ ~call.latestTag.present
                   /\ call.options.present =>
                        call.options.version = DefaultInitialVersion
              ELSE /\ call.latestTag.present
                   /\ call.latestTag.version = packages[k].lastVersion
    /\ pc = "releasers" => Len(releaserCalls) = idx - 1
    /\ pc \in {"openPR", "addPending"} => Len(releaserCalls) = Len(packages)
    /\ (pc \in {"done", "threw"} /\ Len(releaserCalls) > 0) =>
         Len(releaserCalls) = Len(packages)

\* A run whose first candidate had no lastVersion: its releaser proposed the
\* default initial version, the second candidate's releaser got its marker,
\* and the run returned the pull request.
C16_Witness ==
  /\ PullRequestReturned /\ ret = "pr"
  /\ Len(packages) > 1
  /\ packages[1].lastVersion = Undefined
  /\ Len(releaserCalls) = Len(packages)
  /\ ~releaserCalls[1].latestTag.present
  /\ releaserCalls[1].options.present
  /\ releaserCalls[Len(packages)].latestTag.present
  /\ DOMAIN manifestUpdates = {packages[i].path : i \in 1..Len(packages)}

\* The candidates of a githubRelease run are the configured packages with a
\* file of the merged pull request under their path.
CandidatesAreTouchedPackages ==
  (op = "githubRelease" /\ ResolverReturned) =>
    /\ lastMergedPR = mergedPR
    /\ Range(PathsOf(packages)) = Configured \cap mergedPR.files
    /\ Len(packages) = Cardinality(Configured \cap mergedPR.files)

\* A candidate without a known lastVersion gets no createRelease call and,
\* once the loop has passed it, maps to undefined in the result.
UnknownVersionSkipped ==
  op = "githubRelease" =>
    \A i \in 1..Len(packages) :
      packages[i].lastVersion = Undefined =>
        /\ packages[i].path \notin Range(attempts)
        /\ (pc \in {"loop", "commentFailure", "commentSuccess"} /\ idx > i) =>
             /\ packages[i].path \in DOMAIN releases
             /\ releases[packages[i].path] = Undefined

\* C17 as stated: the candidates are the configured packages touched by the
\* merged pull request, every createRelease call is made with the version the
\* manifest at the merged pull request's sha records for the package, and a
\* candidate without a known lastVersion is skipped and maps to undefined.
C17_ReleasedWithVersionAtSha ==
  /\ CandidatesAreTouchedPackages
  /\ \A p \in DOMAIN attemptVersions :
       /\ shaManifestDoc.kind = "object"
       /\ p \in DOMAIN shaManifestDoc.entries
       /\ attemptVersions[p] = shaManifestDoc.entries[p].v
  /\ UnknownVersionSkipped

\* C17 (amended): the candidates are the configured packages touched by the
\* merged pull request; every createRelease call is made with the candidate's
\* lastVersion, which is the version the manifest at the merged pull
\* request's sha records for the package or, when that manifest has no entry
\* for it or cannot be read at the sha, the version the tip manifest records;
\* a candidate for which neither has a version is skipped and maps to
\* undefined.
C17_ReleasedWithLastVersion ==
  /\ CandidatesAreTouchedPackages
  /\ op = "githubRelease" =>
       /\ DOMAIN attemptVersions = Range(attempts)
       /\ \A i \in 1..Len(packages) :
            packages[i].path \in DOMAIN attemptVersions =>
              /\ attemptVersions[packages[i].path] = packages[i].lastVersion
              /\ attemptVersions[packages[i].path] # Undefined
              /\ attemptVersions[packages[i].path] =
                   IF packages[i].path \in DOMAIN ReferenceVersions
                     THEN ReferenceVersions[packages[i].path]
                     ELSE manifestDoc.entries[packages[i].path].v
  /\ UnknownVersionSkipped

\* A run that created one release with the version found at the sha and
\* skipped another candidate that has no version anywhere.
C17_Witness ==
  /\ ReleaseRunReturned
  /\ Len(packages) = 2
  /\ \E p \in created : attemptVersions[p] = ShaVersion
  /\ \E i \in 1..Len(packages) :
       /\ packages[i].lastVersion = Undefined
       /\ packages[i].path \in DOMAIN releases
       /\ packages[i].path \notin Range(attempts)

\* ---- the propagator's claims

PropagatorReturned == ppc = "returned"

\* The packages the upstream releasers updated, and those of them that are
\* node packages with a new package.json.
DirectlyUpdated == {n \in Pkgs : PkgPath(n) \in DOMAIN given.versions}
DirectlyUpdatedNode ==
  {n \in DirectlyUpdated :
     \E i \in 1..Len(given.pkgs) :
       /\ given.pkgs[i].config.path = PkgPath(n)
       /\ given.pkgs[i].config.releaseType = "node"
       /\ DescriptorPath(PkgPath(n)) \in DOMAIN given.pkgs[i].prData.changes}

HasEntry(entries, name) ==
  \E i \in 1..Len(entries) : entries[i].config.path = PkgPath(name)
EntryOf(entries, name) ==
  entries[CHOOSE i \in 1..Len(entries) : entries[i].config.path = PkgPath(name)]

\* The package.json the pull request will write for a package.
OutputJson(name) ==
  JsonParse(EntryOf(pkgsWithPRData, name)
              .prData.changes[DescriptorPath(PkgPath(name))].content)

\* The packages that depend, directly or transitively, on one of names over
\* the edges <<dependent, dependency>>; names included.
RECURSIVE Dependents(_, _)
Dependents(edges, names) ==
  LET more == names \cup {e[1] : e \in {e \in edges : e[2] \in names}}
  IN IF more = names THEN names ELSE Dependents(edges, more)

Acyclic(edges) ==
  \A n \in Pkgs :
    n \notin Dependents(edges, {e[1] : e \in {e \in edges : e[2] = n}})

\* The dependencies the package.json files declare on packages of the
\* workspace, of any collection and any type.
DeclaredEdges == {e \in Edges : e[2] \in DOMAIN workspace[e[1]].dependencies}

NodePkgs ==
  {n \in Pkgs : \E i \in 1..Len(parsedPackages) :
     /\ parsedPackages[i].path = PkgPath(n)
     /\ parsedPackages[i].releaseType = "node"}

\* The version a package has when the propagator is called.
CurrentVersion(name) ==
  IF name \in DirectlyUpdatedNode THEN given.versions[PkgPath(name)]
  ELSE workspace[name].version

\* The declared dependencies between node packages that are directory
\* references or ranges the dependency's current version satisfies.
LocalEdges ==
  {e \in DeclaredEdges :
     /\ e[1] \in NodePkgs /\ e[2] \in NodePkgs
     /\ \/ workspace[e[1]].dependencies[e[2]].type = "directory"
        \/ Satisfies(CurrentVersion(e[2]),
                     workspace[e[1]].dependencies[e[2]].range)}

\* The packages the propagator put into the pair it returns.
Propagated ==
  {n \in Pkgs :
     \/ HasEntry(pkgsWithPRData, n) /\ ~HasEntry(given.pkgs, n)
     \/ PkgPath(n) \in DOMAIN newManifestVersions \ DOMAIN given.versions
     \/ DescriptorPath(PkgPath(n)) \in Range(allUpdated)}

\* C18: every package the propagator outputs is a directly updated package or
\* depends on one, directly or transitively, through declared dependencies of
\* any collection; a package with no such path has no PR-data entry and no
\* VersionsMap entry after the run.
C18_OutputWithinDependents ==
  PropagatorReturned =>
    \A n \in Pkgs :
      n \notin Dependents(DeclaredEdges, DirectlyUpdated) =>
        /\ n \notin Propagated
        /\ ~HasEntry(pkgsWithPRData, n)
        /\ PkgPath(n) \notin DOMAIN newManifestVersions

\* pkgA is updated, pkgB depends on it and is output, pkgC is unrelated and a
\* package of the graph.
C18_Witness ==
  /\ PropagatorReturned
  /\ DirectlyUpdated = {"pkgA"}
  /\ "pkgB" \in Propagated
  /\ "pkgC" \in NodePkgs
  /\ "pkgC" \notin Dependents(DeclaredEdges, DirectlyUpdated)
  /\ "pkgC" \notin Propagated

\* What a dependent is output with: the patch increment of its previous
\* version, in its entry, its package.json and the VersionsMap.
PatchBumped(name) ==
  /\ HasEntry(pkgsWithPRData, name)
  /\ EntryOf(pkgsWithPRData, name).prData.version
       = SemverInc(workspace[name].version, "patch")
  /\ DescriptorPath(PkgPath(name))
       \in DOMAIN EntryOf(pkgsWithPRData, name).prData.changes
  /\ OutputJson(name).version = SemverInc(workspace[name].version, "patch")
  /\ PkgPath(name) \in DOMAIN newManifestVersions
  /\ newManifestVersions[PkgPath(name)]
       = SemverInc(workspace[name].version, "patch")

\* The dependency of name on dep is a caret range on dep's new version.
Rewritten(name, dep) ==
  /\ PkgPath(dep) \in DOMAIN newManifestVersions
  /\ OutputJson(name).dependencies[dep] =
       Dependency(workspace[name].dependencies[dep].kind, "range",
                  newManifestVersions[PkgPath(dep)])

\* C19 as stated: in a workspace of node packages with parsable versions and
\* an acyclic graph of declared dependencies, every dependent of a directly
\* updated package that is not directly updated is output with the patch
\* increment of its version, and each of its range dependencies on a package
\* of the update set is a caret range on that package's new version.
C19_DependentsPatchedAndRewritten ==
  (/\ PropagatorReturned
   /\ NodePkgs = Pkgs
   /\ \A n \in Pkgs : workspace[n].version # NotAVersion
   /\ Acyclic(DeclaredEdges)) =>
    \A n \in Dependents(DeclaredEdges, DirectlyUpdated) \ DirectlyUpdated :
      /\ PatchBumped(n)
      /\ \A d \in DOMAIN workspace[n].dependencies :
           (/\ workspace[n].dependencies[d].type = "range"
            /\ d \in Dependents(DeclaredEdges, DirectlyUpdated)) =>
             Rewritten(n, d)

\* C19, amended: the dependents are those over local dependencies, which for
\* a range are the ones the dependency's current version satisfies. In an
\* acyclic graph of local dependencies every such dependent that is not
\* directly updated and whose version parses is output with the patch
\* increment, and each of its local range dependencies on a package the runner
\* returned is a caret range on that package's new version.
C19_LocalDependentsPatchedAndRewritten ==
  (PropagatorReturned /\ Acyclic(LocalEdges)) =>
    \A n \in Dependents(LocalEdges, DirectlyUpdatedNode) \ DirectlyUpdated :
      workspace[n].version # NotAVersion =>
        /\ PatchBumped(n)
        /\ \A d \in DOMAIN workspace[n].dependencies :
             (/\ <<n, d>> \in LocalEdges
              /\ workspace[n].dependencies[d].type = "range"
              /\ DescriptorPath(PkgPath(d)) \in Range(allUpdated)) =>
               Rewritten(n, d)

\* The chain pkgA <- pkgB <- pkgC with pkgA patched upstream: pkgB 2.2.3 on
\* ^1.1.2 and pkgC 3.3.4 on ^2.2.3.
C19_Witness ==
  /\ PropagatorReturned
  /\ DirectlyUpdated = {"pkgA"}
  /\ given.versions[PkgPath("pkgA")] = <<1, 1, 2>>
  /\ LocalEdges = {<<"pkgB", "pkgA">>, <<"pkgC", "pkgB">>}
  /\ PatchBumped("pkgB") /\ PatchBumped("pkgC")
  /\ OutputJson("pkgB").version = <<2, 2, 3>>
  /\ OutputJson("pkgB").dependencies["pkgA"]
       = Dependency("dependencies", "range", <<1, 1, 2>>)
  /\ OutputJson("pkgC").version = <<3, 3, 4>>
  /\ OutputJson("pkgC").dependencies["pkgB"]
       = Dependency("dependencies", "range", <<2, 2, 3>>)

\* C20: a directly updated package leaves the propagator with the version its
\* releaser assigned, in its entry, in its package.json and in the
\* VersionsMap, also when it depends on another directly updated package.
C20_UpstreamVersionKept ==
  PropagatorReturned =>
    \A n \in DirectlyUpdated :
      /\ PkgPath(n) \in DOMAIN newManifestVersions
      /\ newManifestVersions[PkgPath(n)] = given.versions[PkgPath(n)]
      /\ HasEntry(pkgsWithPRData, n)
      /\ EntryOf(pkgsWithPRData, n).prData.version = given.versions[PkgPath(n)]
      /\ n \in DirectlyUpdatedNode =>
           OutputJson(n).version = given.versions[PkgPath(n)]

\* pkgB, directly updated, has a local dependency on pkgA, directly updated
\* too, and the runner returned both.
C20_Witness ==
  /\ PropagatorReturned
  /\ {"pkgA", "pkgB"} \subseteq DirectlyUpdatedNode
  /\ <<"pkgB", "pkgA">> \in LocalEdges
  /\ DescriptorPath(PkgPath("pkgB")) \in Range(allUpdated)
  /\ newManifestVersions[PkgPath("pkgB")] = given.versions[PkgPath("pkgB")]

\* The packages the runner has returned.
Done == {NameAt(l) : l \in Range(allUpdated)}

\* The package.json release-please made of a directly updated node package.
UpstreamJson(name) ==
  JsonParse(EntryOf(given.pkgs, name)
              .prData.changes[DescriptorPath(PkgPath(name))].content)

\* The node packages of the workspace without one of them, as
\* getAllWorkspacePackages gathers them.
GatheredWithout(name) ==
  LET names == SelectSeq(PkgOrder, LAMBDA n : n \in NodePkgs /\ n # name)
  IN [i \in 1..Len(names) |->
        [path |-> DescriptorPath(PkgPath(names[i])),
         contents |-> IF names[i] \in DirectlyUpdatedNode
                        THEN UpstreamJson(names[i])
                        ELSE workspace[names[i]]]]

\* What runLernaVersion makes of package n in the workspace without the
\* package name: whether the runner gets it, and its package.json.
ProcessedWithout(name, n) ==
  LET all == GatheredWithout(name)
      pkgs == ByName(all)
      node(m) == [name |-> m, version |-> pkgs[m].version,
                  location |-> Location(all, m)]
      updated == filterPackages(given.pkgs)
      updates == Range(collectPackages(
                         all, {m \in DOMAIN pkgs :
                                 node(m).location \in DOMAIN updated}))
      runnable == {m \in updates : ~InvalidVersion(updated, node(m))}
      versions == [m \in runnable |-> VersionOf(updated, node(m))]
  IN [processed |-> n \in runnable,
      json |-> IF n \in runnable THEN runner(all, versions, pkgs[n]) ELSE pkgs[n]]

\* The dependents, not directly updated, whose version has no patch
\* increment.
InvalidDependents ==
  {n \in Dependents(LocalEdges, DirectlyUpdatedNode) \ DirectlyUpdated :
     workspace[n].version = NotAVersion}

\* C21: a dependent whose version has no patch increment is left out of the
\* output (no PR-data entry, no VersionsMap entry, package.json as it was),
\* and every other node package that does not depend on it comes out as it
\* would from the workspace without that dependent.
C21_InvalidVersionIsolated ==
  PropagatorReturned =>
    \A x \in InvalidDependents :
      /\ ~HasEntry(pkgsWithPRData, x)
      /\ PkgPath(x) \notin DOMAIN newManifestVersions
      /\ x \notin Done
      /\ graphPkgs[x] = workspace[x]
      /\ \A n \in NodePkgs \ Dependents(DeclaredEdges, {x}) :
           /\ (n \in Done) = ProcessedWithout(x, n).processed
           /\ graphPkgs[n] = ProcessedWithout(x, n).json
           /\ (n \in Done \ DirectlyUpdated) =>
                /\ HasEntry(pkgsWithPRData, n)
                /\ OutputJson(n) = ProcessedWithout(x, n).json
                /\ newManifestVersions[PkgPath(n)]
                     = ProcessedWithout(x, n).json.version

\* pkgA is updated; pkgB depends on it and has an unparsable version; pkgC
\* depends on pkgA, not on pkgB, and is patched.
C21_Witness ==
  /\ PropagatorReturned
  /\ DirectlyUpdated = {"pkgA"}
  /\ "pkgB" \in InvalidDependents
  /\ "pkgC" \notin Dependents(DeclaredEdges, {"pkgB"})
  /\ "pkgC" \in Done
  /\ PatchBumped("pkgC")
  /\ ~HasEntry(pkgsWithPRData, "pkgB")

\* C22: a local dependency that is a directory reference is never rewritten,
\* neither in the package handed back by the runner nor in the pending
\* package.json, also when its target gets a new version; the package that
\* holds it is a dependent of the target and gets its patch increment.
C22_DirectoryReferencesKept ==
  PropagatorReturned =>
    \A e \in LocalEdges :
      workspace[e[1]].dependencies[e[2]].type = "directory" =>
        /\ graphPkgs[e[1]].dependencies[e[2]]
             = workspace[e[1]].dependencies[e[2]]
        /\ (/\ HasEntry(pkgsWithPRData, e[1])
            /\ DescriptorPath(PkgPath(e[1]))
                 \in DOMAIN EntryOf(pkgsWithPRData, e[1]).prData.changes) =>
             OutputJson(e[1]).dependencies[e[2]]
               = workspace[e[1]].dependencies[e[2]]
        /\ (/\ e[2] \in Dependents(LocalEdges, DirectlyUpdatedNode)
            /\ e[1] \notin DirectlyUpdated
            /\ workspace[e[1]].version # NotAVersion) =>
             e[1] \in Done /\ PatchBumped(e[1])

\* pkgB refers to pkgA by directory, pkgA is updated to a new version: pkgB is
\* patched and its reference is the directory reference still.
C22_Witness ==
  /\ PropagatorReturned
  /\ DirectlyUpdated = {"pkgA"}
  /\ workspace["pkgB"].dependencies
       = ("pkgA" :> Dependency("dependencies", "directory", NotAVersion))
  /\ newManifestVersions[PkgPath("pkgA")] # PreviousVersion["pkgA"]
  /\ PatchBumped("pkgB")
  /\ OutputJson("pkgB").dependencies["pkgA"].type = "directory"

\* The local dependencies among the packages handed to runTopologically.
CandidateEdges ==
  {e \in LocalEdges : e[1] \in Runnable /\ e[2] \in Runnable}

C24_CyclesTolerated ==
  ~Acyclic(CandidateEdges) =>
    /\ (ppc = "runTopologically" /\ Waiting # {}) => ENABLED Runner
    /\ Len(allUpdated) <= Cardinality(Runnable)
    /\ PropagatorReturned =>
         /\ Done = Runnable
         /\ Len(allUpdated) = Cardinality(Runnable)
         /\ \A n \in Runnable :
              /\ graphPkgs[n].version = updatesVersions[n]
              /\ \A e \in CandidateEdges :
                   (/\ e[1] = n
                    /\ workspace[n].dependencies[e[2]].type = "range") =>
                     graphPkgs[n].dependencies[e[2]] =
                       Dependency(workspace[n].dependencies[e[2]].kind, "range",
                                  updatesVersions[e[2]])

\* pkgA and pkgB depend on each other by range, pkgA is updated: both were
\* returned and pkgA's range on pkgB is on pkgB's patch increment.
C24_Witness ==
  /\ PropagatorReturned
  /\ DirectlyUpdated = {"pkgA"}
  /\ {<<"pkgA", "pkgB">>, <<"pkgB", "pkgA">>} \subseteq CandidateEdges
  /\ {"pkgA", "pkgB"} \subseteq Done
  /\ graphPkgs["pkgA"].dependencies["pkgB"].range
       = SemverInc(PreviousVersion["pkgB"], "patch")

\* C25: after the merge, the pending package.json of every directly updated
\* node package the runner returned is the package.json the runner made:
\* a range of directly updated pkgB on directly updated pkgA is on pkgA's new
\* version.
C25_PendingContentIsRewritten ==
  PropagatorReturned =>
    \A n \in DirectlyUpdatedNode \cap Done :
      /\ OutputJson(n) = graphPkgs[n]
      /\ \A e \in LocalEdges :
           (/\ e[1] = n
            /\ e[2] \in DirectlyUpdatedNode
            /\ workspace[n].dependencies[e[2]].type = "range") =>
             Rewritten(n, e[2])

\* The entries the propagator appended, and the packages it had to append
\* one for, in the order the runner returned them.
Appended == SubSeq(pkgsWithPRData, Len(given.pkgs) + 1, Len(pkgsWithPRData))
WithoutEntry ==
  SelectSeq(allUpdated, LAMBDA f : ~HasEntry(given.pkgs, NameAt(f)))

\* C26: for every package the runner returned that had no PR-data entry the
\* propagator appends one entry, in the order of processing, made of the
\* package's configuration, its new version and one change, the rewritten
\* package.json at its path; the entries given are kept in place; the
\* VersionsMap has an entry for every directly updated package and every
\* package the runner returned, a dependent's being its patch increment.
C26_NewEntriesAppended ==
  PropagatorReturned =>
    /\ Len(pkgsWithPRData) = Len(given.pkgs) + Len(WithoutEntry)
    /\ \A i \in 1..Len(given.pkgs) :
         pkgsWithPRData[i].config = given.pkgs[i].config
    /\ \A i \in 1..Len(WithoutEntry) :
         LET n == NameAt(WithoutEntry[i])
         IN Appended[i] =
              ManifestPackageWithPRData(
                ParsedPackage(PkgPath(n), "node", n), graphPkgs[n].version,
                WithoutEntry[i] :> FileData(packageJsonStringify(graphPkgs[n])))
    /\ DOMAIN newManifestVersions
         = DOMAIN given.versions \cup {PkgPath(n) : n \in Done}
    /\ \A n \in Done \ DirectlyUpdated :
         /\ newManifestVersions[PkgPath(n)]
              = SemverInc(workspace[n].version, "patch")
         /\ graphPkgs[n].version = SemverInc(workspace[n].version, "patch")
         /\ \A d \in DOMAIN graphPkgs[n].dependencies :
              (<<n, d>> \in LocalEdges /\ d \in Done
               /\ workspace[n].dependencies[d].type = "range") =>
                graphPkgs[n].dependencies[d].range = updatesVersions[d]

\* pkgA is updated, pkgC depends on it and pkgB on pkgC: the entry of pkgC is
\* appended before the entry of pkgB.
C26_Witness ==
  /\ PropagatorReturned
  /\ DirectlyUpdated = {"pkgA"}
  /\ Len(pkgsWithPRData) = 3
  /\ pkgsWithPRData[2].config.path = PkgPath("pkgC")
  /\ pkgsWithPRData[3].config.path = PkgPath("pkgB")
  /\ pkgsWithPRData[3].prData.version = <<2, 2, 3>>
  /\ newManifestVersions[PkgPath("pkgB")] = <<2, 2, 3>>

\* The package.json files of the node packages release-please did not
\* update.
ToRead ==
  {DescriptorPath(PkgPath(n)) : n \in NodePkgs \ DirectlyUpdatedNode}

\* C27: a run reads from the remote the package.json of each configured node
\* package that release-please did not update, once, and no other; for an
\* updated package the pending content is the package.json of the graph.
C27_RemoteReadOncePerPackage ==
  /\ \A i, j \in 1..Len(fetched) : i < j => fetched[i] # fetched[j]
  /\ Range(fetched) \subseteq ToRead
  /\ ppc \in {"runTopologically", "returned"} =>
       /\ Range(fetched) = ToRead
       /\ \A n \in DirectlyUpdatedNode : ByName(allPkgs)[n] = UpstreamJson(n)
       /\ \A n \in NodePkgs \ DirectlyUpdatedNode :
            ByName(allPkgs)[n] = workspace[n]
       /\ DOMAIN ByName(allPkgs) = NodePkgs

\* pkgA is updated, pkgC is no node package: pkgB's package.json is the one
\* read.
C27_Witness ==
  /\ PropagatorReturned
  /\ DirectlyUpdatedNode = {"pkgA"}
  /\ NodePkgs = {"pkgA", "pkgB"}
  /\ fetched = <<DescriptorPath(PkgPath("pkgB"))>>

\* ---- the release loop's failures and outcomes

\* C28: in a githubRelease run that has entered the release loop no failure
\* of a remote call ends the run: it does not throw, and when it is over it
\* has returned the result map, with createRelease called for every
\* candidate with a known last version.
C28_ReleaseLoopFailuresRecovered ==
  (op = "githubRelease" /\ Len(packages) > 0) =>
    /\ pc # "threw"
    /\ pc = "done" => (ret = "releases" /\ attempts = KnownVersionPaths)

\* The comments this run posted for the package at path p.
CommentsFor(p) == SelectSeq(comments, LAMBDA c : c.path = p)

Mapped(p, value) == p \in DOMAIN releases /\ releases[p] = value

\* C29: when the run has returned, a created release has one success comment
\* and the release response in the map; any failure other than the tag
\* conflict has one failure comment and undefined in the map; the tag
\* conflict and a candidate without last version have no comment and
\* undefined in the map.
C29_OutcomesRecordedAndCommented ==
  ReleaseRunReturned =>
    /\ \A p \in DOMAIN answers :
         /\ answers[p] = Created =>
              CommentsFor(p) = <<Comment("success", p)>> /\ Mapped(p, "response")
         /\ FailedOtherThanConflict(p) =>
              CommentsFor(p) = <<Comment("failure", p)>> /\ Mapped(p, Undefined)
         /\ answers[p] = TagConflict =>
              CommentsFor(p) = <<>> /\ Mapped(p, Undefined)
    /\ \A i \in 1..Len(packages) :
         HasNoLastVersion(packages[i]) =>
           /\ CommentsFor(packages[i].path) = <<>>
           /\ Mapped(packages[i].path, Undefined)

\* The loop is through with a candidate: it was skipped, or createRelease
\* has answered and the comment that answer calls for is posted.
OutcomeKnown(pkg) ==
  \/ HasNoLastVersion(pkg) /\ Mapped(pkg.path, Undefined)
  \/ /\ pkg.path \in DOMAIN answers
     /\ answers[pkg.path] = Created =>
          Comment("success", pkg.path) \in Range(comments)
     /\ (/\ answers[pkg.path].kind = "error"
         /\ ~IsUnprocessableWithErrors(answers[pkg.path])) =>
          Comment("failure", pkg.path) \in Range(comments)

\* C30: in a githubRelease run a label operation is performed, or about to
\* be, only when the loop is over: every candidate was skipped or attempted,
\* and every comment is posted.
C30_LabelAfterAllOutcomes ==
  (/\ op = "githubRelease"
   /\ labelOps # <<>> \/ pc \in {"addLabels", "removeLabels"}) =>
    /\ idx > Len(packages)
    /\ attempts = KnownVersionPaths
    /\ \A i \in 1..Len(packages) : OutcomeKnown(packages[i])

\* Two candidates, both released and commented, then the label operations.
C30_Witness ==
  /\ op = "githubRelease"
  /\ Len(packages) = 2
  /\ Len(attempts) = 2
  /\ Len(comments) = 2
  /\ labelOps = <<"add released", "remove pending">>

\* The two labels of a release pull request.
ReleaseLabels == {PendingLabel, ReleasedLabel}

\* C31: in a githubRelease run the merged pull request has the labels the run
\* found until the released label is added, both labels between the two
\* label operations, and the released label after them, so it never is
\* without both; a run that finds both labels bails out: it calls
\* createRelease for no package, creates no release and changes no label.
C31_ReleasedAddedBeforePendingRemoved ==
  (op = "githubRelease" /\ lastMergedPR.exists) =>
    /\ labelOps = <<>> => mergedPR.labels = lastMergedPR.labels
    /\ labelOps # <<>> =>
         /\ labelOps[1] = "add released"
         /\ PendingLabel \in lastMergedPR.labels
    /\ labelOps = <<"add released">> => mergedPR.labels = ReleaseLabels
    /\ Len(labelOps) > 1 =>
         /\ labelOps = <<"add released", "remove pending">>
         /\ mergedPR.labels = {ReleasedLabel}
    /\ (lastMergedPR.labels \cap ReleaseLabels # {}) =>
         mergedPR.labels \cap ReleaseLabels # {}
    /\ ReleaseLabels \subseteq lastMergedPR.labels =>
         /\ attempts = <<>> /\ created = {} /\ labelOps = <<>>
         /\ remoteReleases = releasesAtStart
         /\ pc = "done" /\ ret = Undefined

\* The first run created releases and was interrupted between the two label
\* operations; the second run found both labels and bailed out.
C31_Witness ==
  /\ runs = 2
  /\ op = "githubRelease"
  /\ releasesAtStart # {}
  /\ lastMergedPR.exists
  /\ lastMergedPR.labels = ReleaseLabels
  /\ pc = "done"
  /\ attempts = <<>>

\* C32: when a dependent is dropped for a version without a patch increment,
\* every candidate that declares a dependency on it and is not directly
\* updated is still processed: it is output with its patch increment, its
\* dependency on the dropped package is as it was, and each of its local range
\* dependencies on a package the runner returned is a caret range on that
\* package's new version.
C32_DependentsOfDroppedProcessed ==
  PropagatorReturned =>
    \A x \in InvalidDependents :
      \A n \in Range(updatesWithDependents) \ DirectlyUpdated :
        (/\ <<n, x>> \in DeclaredEdges
         /\ workspace[n].version # NotAVersion) =>
          /\ n \in Done
          /\ PatchBumped(n)
          /\ graphPkgs[n].dependencies[x] = workspace[n].dependencies[x]
          /\ OutputJson(n).dependencies[x] = workspace[n].dependencies[x]
          /\ \A d \in DOMAIN workspace[n].dependencies \ {x} :
               (/\ <<n, d>> \in LocalEdges
                /\ workspace[n].dependencies[d].type = "range"
                /\ d \in Done) =>
                 Rewritten(n, d)

\* pkgA is updated; pkgB depends on it and has an unparsable version; pkgC
\* refers to pkgB by directory and to pkgA by a range: pkgC is patched, its
\* range on pkgA rewritten, its reference to pkgB kept.
C32_Witness ==
  /\ PropagatorReturned
  /\ DirectlyUpdated = {"pkgA"}
  /\ "pkgB" \in InvalidDependents
  /\ <<"pkgC", "pkgB">> \in LocalEdges
  /\ <<"pkgC", "pkgA">> \in LocalEdges
  /\ workspace["pkgC"].dependencies["pkgA"].type = "range"
  /\ PatchBumped("pkgC")
  /\ Rewritten("pkgC", "pkgA")
  /\ OutputJson("pkgC").dependencies["pkgB"]
       = workspace["pkgC"].dependencies["pkgB"]
  /\ ~HasEntry(pkgsWithPRData, "pkgB")

\* What the input alone says of the pass: the candidates, the version of
\* each, and the package.json each comes out with.
ExpectedVersion(name) ==
  IF name \in DirectlyUpdatedNode THEN given.versions[PkgPath(name)]
  ELSE SemverInc(workspace[name].version, "patch")
ExpectedRunnable ==
  {n \in Dependents(LocalEdges, DirectlyUpdatedNode) :
     ExpectedVersion(n) # NotAVersion}
ExpectedJson(name) ==
  [workspace[name] EXCEPT
     !.version = ExpectedVersion(name),
     !.dependencies =
       [d \in DOMAIN workspace[name].dependencies |->
          IF /\ <<name, d>> \in LocalEdges
             /\ d \in ExpectedRunnable
             /\ workspace[name].dependencies[d].type # "directory"
            THEN Dependency(workspace[name].dependencies[d].kind, "range",
                            ExpectedVersion(d))
            ELSE workspace[name].dependencies[d]]]

\* C33: the result does not depend on the order in which the candidates are
\* processed: at every point of the pass each package the runner has returned
\* has the version and the dependency ranges that the input alone determines,
\* whatever was processed before it, and at the end the processed packages,
\* the VersionsMap and every package.json of the output are those the input
\* determines.
C33_OrderIndependent ==
  /\ \A n \in Done : graphPkgs[n] = ExpectedJson(n)
  /\ PropagatorReturned =>
       /\ Done = ExpectedRunnable
       /\ \A n \in Done :
            /\ newManifestVersions[PkgPath(n)] = ExpectedVersion(n)
            /\ HasEntry(pkgsWithPRData, n)
            /\ EntryOf(pkgsWithPRData, n).prData.version = ExpectedVersion(n)
            /\ OutputJson(n) = IF n \in DirectlyUpdatedNode
                                 THEN UpstreamJson(n)
                                 ELSE ExpectedJson(n)

\* pkgA and pkgB depend on each other by ranges and pkgA is updated; pkgB was
\* processed before pkgA and has its range on pkgA's new version all the
\* same, and pkgA has its range on pkgB's.
C33_Witness ==
  /\ PropagatorReturned
  /\ DirectlyUpdated = {"pkgA"}
  /\ {<<"pkgA", "pkgB">>, <<"pkgB", "pkgA">>} \subseteq LocalEdges
  /\ workspace["pkgA"].dependencies["pkgB"].type = "range"
  /\ workspace["pkgB"].dependencies["pkgA"].type = "range"
  /\ Len(allUpdated) >= 2
  /\ allUpdated[1] = DescriptorPath(PkgPath("pkgB"))
  /\ allUpdated[2] = DescriptorPath(PkgPath("pkgA"))
  /\ graphPkgs["pkgB"].dependencies["pkgA"].range
       = given.versions[PkgPath("pkgA")]
  /\ graphPkgs["pkgA"].dependencies["pkgB"].range
       = SemverInc(workspace["pkgB"].version, "patch")

\* A package.json outside every configured package.
ForeignDescriptor == DescriptorPath("elsewhere")

\* C34: the run leaves alone what is outside the cascade: an entry of
\* another release type is returned as it was given; the given entries keep
\* their place, their configuration, their version and every file change they
\* had; a VersionsMap entry of a package outside the candidate set keeps its
\* value and the only paths added to the map are those of processed packages;
\* every appended entry is one of a configured package, and an updated
\* package.json at a path of no configured package would add nothing.
C34_OutsideTheCascadeUntouched ==
  /\ PropagatorReturned =>
       /\ Len(pkgsWithPRData) >= Len(given.pkgs)
       /\ \A i \in 1..Len(given.pkgs) :
            /\ pkgsWithPRData[i].config = given.pkgs[i].config
            /\ pkgsWithPRData[i].prData.version = given.pkgs[i].prData.version
            /\ \A f \in DOMAIN given.pkgs[i].prData.changes :
                 /\ f \in DOMAIN pkgsWithPRData[i].prData.changes
                 /\ pkgsWithPRData[i].prData.changes[f]
                      = given.pkgs[i].prData.changes[f]
            /\ given.pkgs[i].config.releaseType # "node" =>
                 pkgsWithPRData[i] = given.pkgs[i]
       /\ \A n \in Pkgs :
            (/\ PkgPath(n) \in DOMAIN given.versions
             /\ n \notin Range(updatesWithDependents)) =>
              /\ PkgPath(n) \in DOMAIN newManifestVersions
              /\ newManifestVersions[PkgPath(n)] = given.versions[PkgPath(n)]
       /\ DOMAIN newManifestVersions \ DOMAIN given.versions
            \subseteq {PkgPath(n) : n \in Done}
       /\ \A i \in 1..Len(Appended) :
            \E j \in 1..Len(PkgOrder) :
              /\ Appended[i].config.path = PkgPath(PkgOrder[j])
              /\ Appended[i].config.releaseType = "node"
  /\ (ppc = "runTopologically" /\ Waiting = {}) =>
       updatePkgsWithPRData(pkgsWithPRData, newManifestVersions,
                            Append(allUpdated, ForeignDescriptor))
         = updatePkgsWithPRData(pkgsWithPRData, newManifestVersions, allUpdated)

\* pkgC is a python package the releasers updated, pkgA a node package they
\* updated, pkgB a dependent: pkgC's entry and version are as given, pkgA's
\* entry is first still, pkgB's is appended.
C34_Witness ==
  /\ PropagatorReturned
  /\ DirectlyUpdated = {"pkgA", "pkgC"}
  /\ "pkgC" \notin NodePkgs
  /\ Len(given.pkgs) = 2
  /\ Len(pkgsWithPRData) = 3
  /\ pkgsWithPRData[1].config.path = PkgPath("pkgA")
  /\ pkgsWithPRData[2] = given.pkgs[2]
  /\ pkgsWithPRData[2].config.releaseType = "python"
  /\ pkgsWithPRData[3].config.path = PkgPath("pkgB")
  /\ newManifestVersions[PkgPath("pkgC")] = given.versions[PkgPath("pkgC")]
  /\ "pkgC" \notin Range(updatesWithDependents)

\* C35: reading the manifest pinned to the merged pull request's sha never
\* fails the run: the resolver never throws on it, and whenever the manifest
\* cannot be read at the sha every candidate's version is the tip
\* manifest's; a failed read of the configuration or of the manifest at the
\* tip is rethrown by the getter.
C35_PinnedReadNeverFailsRun ==
  /\ ~(ThrewInResolver /\ HasSha)
  /\ (ResolverReturned /\ HasSha /\ shaManifestDoc.kind # "object") =>
       /\ getManifestVersions(manifestDoc, shaManifestDoc, TRUE).atSha = "tip"
       /\ \A i \in 1..Len(packages) :
            packages[i].lastVersion
              = Lookup(VersionsOf(manifestDoc), packages[i].path)
  /\ configDoc.kind = "missing" => getFileJson(configDoc, FALSE) = Thrown
  /\ manifestDoc.kind = "missing" => getManifestJson(manifestDoc, FALSE) = Thrown

\* C36: a pullRequest run asks the remote for the commits since the sha of
\* the last merged release pull request when there is one, whatever the
\* configuration says, and since the configured bootstrap sha (none when
\* none is configured) only when there is no such pull request; the same pull
\* request decides the reference of the manifest versions (its sha, or the
\* tip without one) and the sha of every last-release marker handed to a
\* releaser.
C36_CommitsSinceLastMergedSha ==
  (op = "pullRequest" /\ commitsSince # "not called") =>
    /\ lastMergedPR = mergedPR
    /\ commitsSince = IF lastMergedPR.exists THEN MergedSha
                      ELSE configDoc.bootstrapSha
    /\ packages # <<>> =>
         \A i \in 1..Len(packages) :
           packages[i].lastVersion =
             IF /\ lastMergedPR.exists
                /\ shaManifestDoc.kind = "object"
                /\ packages[i].path \in DOMAIN shaManifestDoc.entries
               THEN shaManifestDoc.entries[packages[i].path].v
               ELSE Lookup(VersionsOf(manifestDoc), packages[i].path)
    /\ \A k \in 1..Len(releaserCalls) :
         releaserCalls[k].latestTag.present =>
           releaserCalls[k].latestTag.sha =
             IF lastMergedPR.exists THEN MergedSha ELSE "beginning of time"

\* A bootstrap sha is configured and a release pull request has been merged:
\* the commits are those since the pull request's sha, the version is the
\* one at that sha and the marker carries that sha.
C36_Witness ==
  /\ op = "pullRequest"
  /\ configDoc.bootstrapSha = BootstrapSha
  /\ lastMergedPR.exists
  /\ commitsSince = MergedSha
  /\ Len(releaserCalls) = 1
  /\ releaserCalls[1].latestTag.present
  /\ releaserCalls[1].latestTag.sha = MergedSha
  /\ releaserCalls[1].latestTag.version = ShaVersion

\* ---- the claims on the tip documents

\* The effective release-as as the four cases give it.
EffectiveReleaseAs(pkgRA, defaultRA) ==
  IF pkgRA # Undefined /\ pkgRA # "" THEN pkgRA
  ELSE IF pkgRA = "" THEN Undefined
  ELSE IF defaultRA # Undefined /\ defaultRA # "" THEN defaultRA
  ELSE Undefined

\* C37: every package of a configuration loaded from the tip has as its
\* release-as the package's own value when that is a non-empty string, none
\* when that is the empty string (whatever the repository default), the
\* repository default when the package has none and the default is a
\* non-empty string, and none otherwise.
C37_EffectiveReleaseAs ==
  \A k \in 1..Len(calls) :
    (/\ calls[k].getter = "getConfigJson"
     /\ calls[k].fetched
     /\ calls[k].result.status = "value") =>
      LET doc == calls[k].doc
          parsed == calls[k].result.value.parsedPackages
      IN /\ Len(parsed) = Len(doc.packages)
         /\ \A i \in 1..Len(parsed) :
              /\ parsed[i].path = doc.packages[i]
              /\ parsed[i].releaseAs =
                   EffectiveReleaseAs(doc.packageReleaseAs[parsed[i].path],
                                      doc.releaseAs)

\* The configuration with the default 2.0.0 was loaded: package a, whose own
\* release-as is empty, has none; package b, which has none of its own, has
\* 2.0.0.
C37_Witness ==
  /\ configFile.status = "value"
  /\ Len(calls) > 0
  /\ calls[1].getter = "getConfigJson"
  /\ calls[1].doc = TwoPackagesConfigDoc
  /\ Len(configFile.value.parsedPackages) = 2
  /\ configFile.value.parsedPackages[1].releaseAs = Undefined
  /\ configFile.value.parsedPackages[2].releaseAs = "2.0.0"

\* Call j is the first call of call i's getter after it.
NextCallOf(i, j) ==
  /\ i < j
  /\ calls[i].getter = calls[j].getter
  /\ \A k \in (i + 1)..(j - 1) : calls[k].getter # calls[i].getter

\* C38 as stated: once a getter has read its document from the remote
\* without failing, no later call of it reads the remote and every later
\* call gives what that one gave; after a failed load the next call reads
\* the remote again.
C38_FetchedAtMostOnce ==
  /\ \A i, j \in 1..Len(calls) :
       (/\ i < j
        /\ calls[i].getter = calls[j].getter
        /\ calls[i].fetched
        /\ calls[i].result.status = "value") =>
         /\ ~calls[j].fetched
         /\ calls[j].result = calls[i].result
  /\ \A i, j \in 1..Len(calls) :
       (NextCallOf(i, j) /\ calls[i].result.status = "throw") =>
         calls[j].fetched

\* A call that read the remote and got a value that is kept.
Loaded(call) ==
  /\ call.fetched
  /\ call.result.status = "value"
  /\ call.result.value.kind # "null"

\* C38, amended: once a getter has read its document from the remote and got
\* a value other than null, no later call of it reads the remote, every
\* later call gives that same value whatever was pushed since, and the field
\* holds it; after a load that failed, or that gave null, the field holds no
\* configuration or manifest and the next call reads the remote again.
C38_CachedOnceLoaded ==
  /\ \A i, j \in 1..Len(calls) :
       (i < j /\ calls[i].getter = calls[j].getter /\ Loaded(calls[i])) =>
         /\ ~calls[j].fetched
         /\ calls[j].result = calls[i].result
  /\ \A i, j \in 1..Len(calls) :
       (NextCallOf(i, j) /\ ~Loaded(calls[i]) /\ calls[i].fetched) =>
         calls[j].fetched
  /\ \A i \in 1..Len(calls) :
       Loaded(calls[i]) =>
         IF calls[i].getter = "getConfigJson"
           THEN configFile = calls[i].result
           ELSE headManifest = calls[i].result
  /\ \A i \in 1..Len(calls) :
       (calls[i].fetched /\ calls[i].result.status = "value") =>
         calls[i].result =
           IF calls[i].getter = "getConfigJson"
             THEN getConfigJson(calls[i].doc)
             ELSE getManifestJson(calls[i].doc, FALSE)

\* The manifest was loaded, then another manifest was pushed: a later call
\* reads nothing and gives the manifest as it was loaded.
C38_Witness ==
  /\ Len(calls) >= 2
  /\ calls[1].getter = "getManifestJson"
  /\ Loaded(calls[1])
  /\ calls[2].getter = "getManifestJson"
  /\ ~calls[2].fetched
  /\ calls[2].result = calls[1].result
  /\ calls[2].doc # calls[1].doc
  /\ manifestDoc # headManifest.value
====
